---- MODULE Spec2Model ----
(***************************************************************************)
(* Skill matching engine of CognitoResume                                  *)
(* (src/ai_pipeline/pipeline/skill_match).                                 *)
(*                                                                         *)
(* Representation.                                                         *)
(*  - A Python str is a sequence of one-character strings, so that split,  *)
(*    strip, lower and translate are computed character by character.      *)
(*  - An Optional value is a sequence of length 0 (None) or 1 (the value). *)
(*  - A float similarity is a fixed-point integer in units of 10^-6        *)
(*    (SimScale); a value rounded by round(x, 4) is in units of 10^-4      *)
(*    (RoundScale).  Configured weights and thresholds are in hundredths   *)
(*    (WeightScale) and in units of 10^-4 respectively.                    *)
(*  - An embedding is a two-dimensional integer vector of integral norm,   *)
(*    so that its cosine is an exact fixed-point number.                   *)
(***************************************************************************)
EXTENDS Integers, Sequences, FiniteSets, TLC

None == << >>
Some(x) == << x >>
IsNone(o) == o = << >>

Max2(a, b) == IF a >= b THEN a ELSE b
Reverse(s) == [i \in 1..Len(s) |-> s[Len(s) + 1 - i]]
Abs(a) == IF a < 0 THEN -a ELSE a

\* round(x, 4)
RoundDigits == 4
RoundScale == 10 ^ RoundDigits
SimScale == 10 ^ 6
WeightScale == 10 ^ 2

(***************************************************************************)
(* Characters and strings                                                  *)
(***************************************************************************)
UpperChars == <<"A", "B", "C", "D", "R">>
LowerChars == <<"a", "b", "c", "d", "r">>
OtherWordChars == {"o", "_", "1"}
WordChars == {UpperChars[i] : i \in 1..Len(UpperChars)}
               \cup {LowerChars[i] : i \in 1..Len(LowerChars)} \cup OtherWordChars
Whitespace == {" "}
\* string.punctuation, restricted to the characters the model's alphabet holds
Punctuation == {".", ",", "-", "+", "#", "/", "_", "!"}

\* str.lower, one character
LowerChar(c) ==
  IF \E i \in 1..Len(UpperChars) : UpperChars[i] = c
  THEN LowerChars[CHOOSE i \in 1..Len(UpperChars) : UpperChars[i] = c]
  ELSE c

\* str.lower
Lower(s) == [i \in 1..Len(s) |-> LowerChar(s[i])]

RECURSIVE LStrip(_)
LStrip(s) == IF s # << >> /\ Head(s) \in Whitespace THEN LStrip(Tail(s)) ELSE s

RECURSIVE RStrip(_)
RStrip(s) ==
  IF s # << >> /\ s[Len(s)] \in Whitespace THEN RStrip(SubSeq(s, 1, Len(s) - 1)) ELSE s

\* str.strip()
Strip(s) == RStrip(LStrip(s))

\* s.startswith(p) at offset i (1-based)
MatchesAt(s, i, p) ==
  /\ i + Len(p) - 1 <= Len(s)
  /\ \A k \in 1..Len(p) : s[i + k - 1] = p[k]

OrSeparator == <<" ", "o", "r", " ">>

\* str.split(sep) for a non-empty separator, from offset i on: left to right,
\* non-overlapping; cur is the piece read since the last separator
RECURSIVE SplitFrom(_, _, _, _)
SplitFrom(s, i, cur, sep) ==
  IF i > Len(s) THEN <<cur>>
  ELSE IF MatchesAt(s, i, sep)
       THEN <<cur>> \o SplitFrom(s, i + Len(sep), << >>, sep)
       ELSE SplitFrom(s, i + 1, Append(cur, s[i]), sep)

SplitOn(s, sep) == SplitFrom(s, 1, << >>, sep)

\* [s.strip() for s in skill.split(" or ")]
SplitParts(skill) ==
  LET raw == SplitOn(skill, OrSeparator)
  IN [i \in 1..Len(raw) |-> Strip(raw[i])]

(***************************************************************************)
(* TextNormalizer (data_processor.py).  A normalizer is a record           *)
(* [config, synonym_map, acronym_map]: config is the set of the flags that *)
(* are set, so that config.get(flag, False) is membership; each map is the *)
(* sequence of the items of the dict, in dict order.                       *)
(***************************************************************************)
ConfigGet(config, flag) == flag \in config

\* \b of the re module at offset i (between s[i-1] and s[i])
WordBoundaryAt(s, i) ==
  LET before == i > 1 /\ s[i - 1] \in WordChars
      after == i <= Len(s) /\ s[i] \in WordChars
  IN before # after

\* \b<key>\b matches at offset i, ignoring case
AcronymMatchesAt(s, i, key) ==
  /\ i + Len(key) - 1 <= Len(s)
  /\ \A k \in 1..Len(key) : LowerChar(s[i + k - 1]) = LowerChar(key[k])
  /\ WordBoundaryAt(s, i)
  /\ WordBoundaryAt(s, i + Len(key))

\* re.sub(r'\b' + re.escape(key) + r'\b', repl, s, flags=re.IGNORECASE) from
\* offset i on, for a non-empty key
RECURSIVE ReSubFrom(_, _, _, _)
ReSubFrom(s, i, key, repl) ==
  IF i > Len(s) THEN << >>
  ELSE LET hit == AcronymMatchesAt(s, i, key)
       IN (IF hit THEN repl ELSE <<s[i]>>)
            \o ReSubFrom(s, IF hit THEN i + Len(key) ELSE i + 1, key, repl)

\* the loop over acronym_map.items(), from item k on
RECURSIVE ApplyAcronyms(_, _, _)
ApplyAcronyms(text, acronym_map, k) ==
  IF k > Len(acronym_map) THEN text
  ELSE ApplyAcronyms(ReSubFrom(text, 1, acronym_map[k].lower, acronym_map[k].upper),
                     acronym_map, k + 1)

\* the item of synonym_map a lowercased text is equal to (or one of whose synonyms it is)
SynonymHit(normalized_input, item) ==
  \/ normalized_input = Lower(item.canonical)
  \/ \E j \in 1..Len(item.synonyms) : normalized_input = Lower(item.synonyms[j])

\* str.translate(str.maketrans('', '', string.punctuation))
RemovePunctuation(s) == SelectSeq(s, LAMBDA c : c \notin Punctuation)

\* the steps of normalize after the synonym lookup: lowercase, strip, punctuation
RemainingSteps(config, text) ==
  LET lowered == IF ConfigGet(config, "lowercase") THEN Lower(text) ELSE text
      stripped == IF ConfigGet(config, "strip_whitespace") THEN Strip(lowered) ELSE lowered
  IN IF ConfigGet(config, "remove_punctuation") THEN RemovePunctuation(stripped) ELSE stripped

\* the canonical term of the first item of synonym_map that normalized_input
\* hits, lowercased; None when it hits no item
SynonymLookup(synonym_map, normalized_input) ==
  LET hits == {k \in 1..Len(synonym_map) : SynonymHit(normalized_input, synonym_map[k])}
  IN IF hits = {} THEN None
     ELSE Some(Lower(synonym_map[CHOOSE k \in hits : \A j \in hits : k <= j].canonical))

\* a variant that runs the remaining steps on the canonical term too
AfterAcronyms_StepsOnHit(nz, text, found) ==
  IF ConfigGet(nz.config, "apply_synonyms") /\ ~IsNone(found)
  THEN RemainingSteps(nz.config, found[1])
  ELSE RemainingSteps(nz.config, text)

\* normalize from the synonym step on; found is the result of the lookup
AfterAcronyms(nz, text, found) ==
  IF ConfigGet(nz.config, "apply_synonyms") /\ ~IsNone(found) THEN found[1]
  ELSE RemainingSteps(nz.config, text)

\* normalize from the synonym step on, for the text the acronym step gives
FromSynonyms(nz, text) ==
  AfterAcronyms(nz, text, SynonymLookup(nz.synonym_map, Lower(text)))

\* TextNormalizer.normalize
normalize(nz, original_text) ==
  IF original_text = << >> THEN << >>
  ELSE FromSynonyms(nz, IF ConfigGet(nz.config, "apply_acronyms")
                        THEN ApplyAcronyms(original_text, nz.acronym_map, 1)
                        ELSE original_text)

(***************************************************************************)
(* rapidfuzz.fuzz.token_set_ratio, in units of 10^-6 of the ratio / 100    *)
(***************************************************************************)
\* str.split(): the tokens between runs of whitespace
RECURSIVE SplitWhitespace(_, _)
SplitWhitespace(s, cur) ==
  IF s = << >> THEN (IF cur = << >> THEN << >> ELSE <<cur>>)
  ELSE LET space == Head(s) \in Whitespace
       IN (IF space /\ cur # << >> THEN <<cur>> ELSE << >>)
            \o SplitWhitespace(Tail(s), IF space THEN << >> ELSE Append(cur, Head(s)))

TokenSet(s) == LET t == SplitWhitespace(s, << >>) IN {t[i] : i \in 1..Len(t)}

\* the order of the characters of the alphabet (their code points)
CharOrder == <<" ", "!", "#", "+", ",", "-", ".", "/", "1", "A", "B", "C", "D", "R",
               "_", "a", "b", "c", "d", "o", "r">>
CharRank(c) == CHOOSE i \in 1..Len(CharOrder) : CharOrder[i] = c

RECURSIVE StrLess(_, _)
StrLess(s, t) ==
  IF t = << >> THEN FALSE
  ELSE IF s = << >> THEN TRUE
  ELSE IF Head(s) = Head(t) THEN StrLess(Tail(s), Tail(t))
  ELSE CharRank(Head(s)) < CharRank(Head(t))

\* the least of a non-empty set of strings
LeastStr(tokens) == CHOOSE t \in tokens : \A u \in tokens \ {t} : StrLess(t, u)

JoinWith(least, rest) == IF rest = << >> THEN least ELSE least \o <<" ">> \o rest

\* " ".join(sorted(tokens)), from the least token on
RECURSIVE JoinFrom(_, _)
JoinFrom(tokens, least) ==
  IF tokens = {least} THEN least
  ELSE JoinWith(least, JoinFrom(tokens \ {least}, LeastStr(tokens \ {least})))

\* " ".join(sorted(tokens))
JoinSorted(tokens) == IF tokens = {} THEN << >> ELSE JoinFrom(tokens, LeastStr(tokens))

\* length of a longest common subsequence
LcsLen(s, t) ==
  LET L[i \in 0..Len(s), j \in 0..Len(t)] ==
        IF i = 0 \/ j = 0 THEN 0
        ELSE IF s[i] = t[j] THEN L[i - 1, j - 1] + 1
        ELSE Max2(L[i - 1, j], L[i, j - 1])
  IN L[Len(s), Len(t)]

\* Indel distance: insertions and deletions turning s into t
IndelDistance(s, t) == Len(s) + Len(t) - 2 * LcsLen(s, t)

\* 1 - dist / lensum, truncated to 10^-6
NormSim(dist, lensum) ==
  IF lensum = 0 THEN SimScale ELSE (SimScale * (lensum - dist)) \div lensum

\* token_set_ratio once the token sets are split: sect, ab and ba are the sorted
\* joins of the intersection and of the two differences
RatioOfJoined(sect, ab, ba) ==
  LET sep == IF Len(sect) > 0 THEN 1 ELSE 0
      sect_ab_len == Len(sect) + sep + Len(ab)
      sect_ba_len == Len(sect) + sep + Len(ba)
      result == NormSim(IndelDistance(ab, ba), sect_ab_len + sect_ba_len)
      sect_ab_ratio == NormSim(sep + Len(ab), Len(sect) + sect_ab_len)
      sect_ba_ratio == NormSim(sep + Len(ba), Len(sect) + sect_ba_len)
  IN IF Len(sect) = 0 THEN result
     ELSE Max2(result, Max2(sect_ab_ratio, sect_ba_ratio))

RatioOfTokens(tokens_a, tokens_b) ==
  IF tokens_a = {} \/ tokens_b = {} THEN 0
  ELSE IF tokens_a \cap tokens_b # {} /\ (tokens_a \subseteq tokens_b \/ tokens_b \subseteq tokens_a)
       THEN SimScale
       ELSE RatioOfJoined(JoinSorted(tokens_a \cap tokens_b),
                          JoinSorted(tokens_a \ tokens_b),
                          JoinSorted(tokens_b \ tokens_a))

token_set_ratio(s1, s2) == RatioOfTokens(TokenSet(s1), TokenSet(s2))

\* TextNormalizer.lexical_similarity
lexical_similarity(nz, text1, text2) ==
  token_set_ratio(normalize(nz, text1), normalize(nz, text2))

(***************************************************************************)
(* Numbers                                                                 *)
(***************************************************************************)
\* p / q (q > 0) rounded to the nearest integer, a tie to the even one: round()
\* on a value the float holds exactly
RoundDiv(p, q) ==
  LET a == Abs(p)
      f == a \div q
      r == a % q
      m == IF 2 * r > q THEN f + 1
           ELSE IF 2 * r < q THEN f
           ELSE IF f % 2 = 0 THEN f ELSE f + 1
  IN IF p < 0 THEN -m ELSE m

RECURSIVE Gcd(_, _)
Gcd(a, b) == IF b = 0 THEN Abs(a) ELSE Gcd(b, a % b)

\* the fraction n / d (d # 0) in lowest terms with a positive denominator: the
\* value a float division yields, kept exact
Fraction(n, d) ==
  LET g == Gcd(Abs(n), Abs(d))
      sgn == IF d < 0 THEN -1 ELSE 1
  IN [num |-> sgn * (n \div g), den |-> sgn * (d \div g)]

RECURSIVE SumSeq(_)
SumSeq(xs) == IF xs = << >> THEN 0 ELSE Head(xs) + SumSeq(Tail(xs))

RECURSIVE Flatten(_)
Flatten(xss) == IF xss = << >> THEN << >> ELSE Head(xss) \o Flatten(Tail(xss))

Range(xs) == {xs[i] : i \in 1..Len(xs)}

(***************************************************************************)
(* The texts of the model and the embedding model                          *)
(***************************************************************************)
T_a == <<"a">>
T_b == <<"b">>
T_B == <<"B">>
T_a_or_b == <<"a", " ", "o", "r", " ", " ", "b">>
T_b_padded == <<" ", "b", " ">>

\* SentenceTransformer.encode, one text: the vector the model gives it
Embedding(text) ==
  CASE text = T_a -> <<25, 0>>
    [] text = T_b -> <<-7, 24>>
    [] text = T_B -> <<7, 24>>
    [] text = T_a_or_b -> <<15, 20>>
    [] OTHER -> <<20, 15>>

Dot(u, v) == u[1] * v[1] + u[2] * v[2]
NormOfSquare(d) == CHOOSE n \in 0..50 : n * n = d
Norm(u) == NormOfSquare(Dot(u, u))

\* sentence_transformers.util.cos_sim(u, v).item(), in units of 10^-6
\* (exact: the product of the norms of two embeddings divides SimScale)
cos_sim(u, v) == Dot(u, v) * (SimScale \div (Norm(u) * Norm(v)))

(***************************************************************************)
(* Configuration (config.py) and the data files                            *)
(***************************************************************************)
AllNormalization ==
  {"apply_acronyms", "apply_synonyms", "lowercase", "strip_whitespace",
   "remove_punctuation"}

\* thresholds in units of 10^-4, weights in hundredths
ConfigSources ==
  { [version |-> "1.0.0",
     model_settings |-> [model_name |-> "org/model"],
     skill_thresholds |-> t,
     similarity_weights |-> [semantic |-> 70, lexical |-> 30],
     scoring_weights |-> w,
     normalization |-> n,
     synonym_file |-> "synonyms.json",
     acronym_file |-> "missing.json"] :
      <<t, w, n>> \in
        { <<[strong |-> 8500, weak |-> 6500, nice |-> 6000],
            [required_skill |-> 80, optional_skill |-> 20], AllNormalization>>,
          <<[strong |-> 8902, weak |-> 1960, nice |-> 1960],
            [required_skill |-> 1, optional_skill |-> 2], AllNormalization>>,
          <<[strong |-> 8902, weak |-> 8902, nice |-> 0],
            [required_skill |-> 80, optional_skill |-> 20], {"strip_whitespace"}>>,
          <<[strong |-> 10000, weak |-> 0, nice |-> 10000],
            [required_skill |-> 100, optional_skill |-> 0], AllNormalization>>,
          <<[strong |-> 1960, weak |-> 8902, nice |-> 6000],
            [required_skill |-> 80, optional_skill |-> 20], AllNormalization>> } }

\* SkillMatcher._load_json_file: the dict of the file, {} when it is missing or
\* is not JSON
_load_json_file(path) ==
  CASE path = "synonyms.json" ->
         << [canonical |-> <<"B">>, synonyms |-> << <<"b", "b">> >>] >>
    [] OTHER -> << >>

\* a variant that takes the configured weight as the share, in hundredths
RelativeWeight_Raw(weight, total_skill_weight) == Fraction(weight, WeightScale)

\* scoring_weights[...] / total_skill_weight
RelativeWeight(weight, total_skill_weight) == Fraction(weight, total_skill_weight)

\* SkillMatcher.__init__, the fields it sets besides the cache
SkillMatcher(config_source) ==
  LET synonym_map == _load_json_file(config_source.synonym_file)
      acronym_map == _load_json_file(config_source.acronym_file)
      scoring_weights == config_source.scoring_weights
      total_skill_weight == scoring_weights.required_skill + scoring_weights.optional_skill
  IN [config |-> config_source,
      normalizer |-> [config |-> config_source.normalization,
                      synonym_map |-> synonym_map,
                      acronym_map |-> acronym_map],
      strong_threshold |-> config_source.skill_thresholds.strong,
      weak_threshold |-> config_source.skill_thresholds.weak,
      nice_threshold |-> config_source.skill_thresholds.nice,
      semantic_weight |-> config_source.similarity_weights.semantic,
      lexical_weight |-> config_source.similarity_weights.lexical,
      scoring_weights |-> scoring_weights,
      required_skill_relative_weight |->
        RelativeWeight(scoring_weights.required_skill, total_skill_weight),
      optional_skill_relative_weight |->
        RelativeWeight(scoring_weights.optional_skill, total_skill_weight)]

\* SkillMatcher._load_cache: the cache a cache file gives.  A file is None
\* (missing) or Some([valid, data]); a file joblib cannot load gives {}
EmptyCache == [t \in {} |-> <<0, 0>>]

\* a variant that takes whatever the file holds, loadable or not
_load_cache_Unchecked(file) == IF IsNone(file) THEN EmptyCache ELSE file[1].data

_load_cache(file) ==
  IF IsNone(file) THEN EmptyCache
  ELSE IF file[1].valid THEN file[1].data ELSE EmptyCache

(***************************************************************************)
(* The texts the calls pass, and their lexical similarities                *)
(***************************************************************************)
CandidateTexts == {T_a, T_B}
RequiredSkills == {T_a, T_a_or_b, T_b_padded}
OptionalSkills == {T_a, T_a_or_b}

\* the alternatives of the job skills
PartTexts == UNION {Range(SplitParts(skill)) : skill \in RequiredSkills \cup OptionalSkills}

\* self.normalizer.lexical_similarity(part, cand_skill) for each normalizer and
\* each pair of texts, evaluated once
LexicalSimilarities ==
  [nz \in {SkillMatcher(c).normalizer : c \in ConfigSources} |->
     [part \in PartTexts |->
        [cand_skill \in CandidateTexts |-> lexical_similarity(nz, part, cand_skill)]]]

(***************************************************************************)
(* SkillMatcher._find_best_match                                           *)
(***************************************************************************)
\* a variant in which a pair with the score of the best replaces it
UpdateBest_LastWins(self, best, cand_skill, semantic_sim, lexical_sim) ==
  IF self.semantic_weight * semantic_sim + self.lexical_weight * lexical_sim >= best.score
     /\ self.semantic_weight * semantic_sim + self.lexical_weight * lexical_sim > 0
  THEN [match |-> Some(cand_skill),
        score |-> self.semantic_weight * semantic_sim + self.lexical_weight * lexical_sim,
        semantic |-> semantic_sim, lexical |-> lexical_sim]
  ELSE best

\* the body of the inner loop for a pair whose two embeddings are found
UpdateBest(self, best, cand_skill, semantic_sim, lexical_sim) ==
  LET score == self.semantic_weight * semantic_sim + self.lexical_weight * lexical_sim
  IN IF score > best.score
     THEN [match |-> Some(cand_skill), score |-> score,
           semantic |-> semantic_sim, lexical |-> lexical_sim]
     ELSE best

\* one pair of the loops: skipped when either embedding is missing
PairStep(self, part, cand_skill, embedding_map, best) ==
  IF part \notin DOMAIN embedding_map \/ cand_skill \notin DOMAIN embedding_map
  THEN best
  ELSE UpdateBest(self, best, cand_skill,
                  cos_sim(embedding_map[part], embedding_map[cand_skill]),
                  LexicalSimilarities[self.normalizer][part][cand_skill])

\* the loop over parts and candidates from the k-th pair on; best is
\* [match, score, semantic, lexical], the score in units of 10^-8
RECURSIVE BestMatchLoop(_, _, _, _, _, _)
BestMatchLoop(self, parts, candidate_skills, embedding_map, k, best) ==
  IF k > Len(parts) * Len(candidate_skills) THEN best
  ELSE BestMatchLoop(self, parts, candidate_skills, embedding_map, k + 1,
         PairStep(self,
                  parts[((k - 1) \div Len(candidate_skills)) + 1],
                  candidate_skills[((k - 1) % Len(candidate_skills)) + 1],
                  embedding_map, best))

\* a variant that reports the job skill trimmed
BestMatchResult_TrimmedSkill(job_skill, best) ==
  [skill |-> Strip(job_skill),
   match |-> best.match,
   sim |-> RoundDiv(best.score, (SimScale * WeightScale) \div RoundScale),
   components |-> [semantic |-> RoundDiv(best.semantic, SimScale \div RoundScale),
                   lexical |-> RoundDiv(best.lexical, SimScale \div RoundScale)]]

\* the dict _find_best_match returns for the best pair found
BestMatchResult(job_skill, best) ==
  [skill |-> job_skill,
   match |-> best.match,
   sim |-> RoundDiv(best.score, (SimScale * WeightScale) \div RoundScale),
   components |-> [semantic |-> RoundDiv(best.semantic, SimScale \div RoundScale),
                   lexical |-> RoundDiv(best.lexical, SimScale \div RoundScale)]]

\* a variant whose best_score starts at -1
_find_best_match_FromMinusOne(self, job_skill, candidate_skills, embedding_map) ==
  BestMatchResult(job_skill,
    BestMatchLoop(self, SplitParts(job_skill), candidate_skills, embedding_map, 1,
                  [match |-> None, score |-> -(SimScale * WeightScale),
                   semantic |-> 0, lexical |-> 0]))

_find_best_match(self, job_skill, candidate_skills, embedding_map) ==
  BestMatchResult(job_skill,
    BestMatchLoop(self, SplitParts(job_skill), candidate_skills, embedding_map, 1,
                  [match |-> None, score |-> 0, semantic |-> 0, lexical |-> 0]))

(***************************************************************************)
(* SkillMatcher.match_skills                                               *)
(***************************************************************************)
\* job_optional after "if job_optional is None: job_optional = []"
OptionalOrEmpty(job_optional) == IF IsNone(job_optional) THEN << >> ELSE job_optional[1]

\* required_parts: the alternatives of the required skills, trimmed
RequiredParts(job_required) ==
  Flatten([i \in 1..Len(job_required) |-> SplitParts(job_required[i])])

\* set(candidate_skills + required_parts + job_optional)
AllTexts(candidate_skills, job_required, job_optional) ==
  Range(candidate_skills) \cup Range(RequiredParts(job_required)) \cup Range(job_optional)

\* a variant that encodes every text of the call, cached or not
TextsToEncode_All(cache, candidate_skills, job_required, job_optional) ==
  AllTexts(candidate_skills, job_required, job_optional)

\* the texts of a call that the cache does not hold
TextsToEncode(cache, candidate_skills, job_required, job_optional) ==
  AllTexts(candidate_skills, job_required, job_optional) \ DOMAIN cache

\* the cache after the loop that stores the new embeddings
CacheWith(cache, texts_to_encode) ==
  [t \in DOMAIN cache \cup texts_to_encode |->
     IF t \in texts_to_encode THEN Embedding(t) ELSE cache[t]]

\* a variant that never writes
_save_cache_Skipped(cache, file, dump_fails) == file

\* a variant that adds the cache to what the file holds
_save_cache_Merging(cache, file, dump_fails) ==
  IF dump_fails THEN file
  ELSE Some([valid |-> TRUE,
             data |-> [t \in DOMAIN _load_cache(file) \cup DOMAIN cache |->
                         IF t \in DOMAIN cache THEN cache[t] ELSE _load_cache(file)[t]]])

\* SkillMatcher._save_cache: joblib.dump, whose failure is logged and swallowed
\* (the file is then left as it was)
_save_cache(cache, file, dump_fails) ==
  IF dump_fails THEN file ELSE Some([valid |-> TRUE, data |-> cache])

\* a variant that takes a sim equal to the threshold as not relevant
WithOk_Strict(self, r) ==
  [skill |-> r.skill, match |-> r.match, sim |-> r.sim, components |-> r.components,
   ok |-> r.sim > self.nice_threshold]

\* res["ok"] = res["sim"] >= self.nice_threshold
WithOk(self, r) ==
  [skill |-> r.skill, match |-> r.match, sim |-> r.sim, components |-> r.components,
   ok |-> r.sim >= self.nice_threshold]

\* a variant that takes an empty list as fully matched
MeanOrZero_EmptyIsOne(scores) ==
  IF scores = << >> THEN Fraction(RoundScale, 1) ELSE Fraction(SumSeq(scores), Len(scores))

\* np.mean(scores) if scores else 0, as a fraction
MeanOrZero(scores) ==
  IF scores = << >> THEN Fraction(0, 1) ELSE Fraction(SumSeq(scores), Len(scores))

Sims(results) == [i \in 1..Len(results) |-> results[i].sim]

\* round(rw * required_match_score + ow * optional_match_score, 4), the four
\* of them fractions
SkillComponentScore(rw, required_match_score, ow, optional_match_score) ==
  RoundDiv(rw.num * required_match_score.num * ow.den * optional_match_score.den
             + ow.num * optional_match_score.num * rw.den * required_match_score.den,
           rw.den * required_match_score.den * ow.den * optional_match_score.den)

RoundFraction(f) == RoundDiv(f.num, f.den)

\* the results dict, from the categorised lists and the two means
ResultsDict(self, strong, weak, missing, optional_results, required_match_score, optional_match_score) ==
  [score |-> SkillComponentScore(self.required_skill_relative_weight, required_match_score,
                                 self.optional_skill_relative_weight, optional_match_score),
   required_match_score |-> RoundFraction(required_match_score),
   optional_match_score |-> RoundFraction(optional_match_score),
   required |-> [strong |-> strong, weak |-> weak, missing |-> missing],
   nice |-> optional_results,
   summary |-> [req_strong |-> Len(strong),
                req_weak |-> Len(weak),
                req_missing |-> Len(missing),
                nice_relevant |-> Len(SelectSeq(optional_results, LAMBDA r : r.ok))],
   relative_skill_weights |->
     [required |-> RoundDiv(self.required_skill_relative_weight.num * RoundScale,
                            self.required_skill_relative_weight.den),
      optional |-> RoundDiv(self.optional_skill_relative_weight.num * RoundScale,
                            self.optional_skill_relative_weight.den)]]

\* a variant whose strong list leaves the strong threshold itself to weak
Aggregate_StrongExclusive(self, required_results, optional_results) ==
  ResultsDict(self,
    SelectSeq(required_results, LAMBDA r : r.sim > self.strong_threshold),
    SelectSeq(required_results,
      LAMBDA r : self.weak_threshold <= r.sim /\ r.sim <= self.strong_threshold),
    SelectSeq(required_results, LAMBDA r : r.sim < self.weak_threshold),
    optional_results,
    MeanOrZero(Sims(required_results)),
    MeanOrZero(Sims(optional_results)))

\* a variant whose missing list takes the weak threshold itself too
Aggregate_MissingInclusive(self, required_results, optional_results) ==
  ResultsDict(self,
    SelectSeq(required_results, LAMBDA r : r.sim >= self.strong_threshold),
    SelectSeq(required_results,
      LAMBDA r : self.weak_threshold <= r.sim /\ r.sim < self.strong_threshold),
    SelectSeq(required_results, LAMBDA r : r.sim <= self.weak_threshold),
    optional_results,
    MeanOrZero(Sims(required_results)),
    MeanOrZero(Sims(optional_results)))

\* a variant that lists the missing results last first
Aggregate_MissingReversed(self, required_results, optional_results) ==
  ResultsDict(self,
    SelectSeq(required_results, LAMBDA r : r.sim >= self.strong_threshold),
    SelectSeq(required_results,
      LAMBDA r : self.weak_threshold <= r.sim /\ r.sim < self.strong_threshold),
    Reverse(SelectSeq(required_results, LAMBDA r : r.sim < self.weak_threshold)),
    optional_results,
    MeanOrZero(Sims(required_results)),
    MeanOrZero(Sims(optional_results)))

\* a variant that keeps a strong result out of missing
Aggregate_MissingBelowBoth(self, required_results, optional_results) ==
  ResultsDict(self,
    SelectSeq(required_results, LAMBDA r : r.sim >= self.strong_threshold),
    SelectSeq(required_results,
      LAMBDA r : self.weak_threshold <= r.sim /\ r.sim < self.strong_threshold),
    SelectSeq(required_results,
      LAMBDA r : r.sim < self.weak_threshold /\ r.sim < self.strong_threshold),
    optional_results,
    MeanOrZero(Sims(required_results)),
    MeanOrZero(Sims(optional_results)))

\* the categorisation and aggregation of the required and optional results
Aggregate(self, required_results, optional_results) ==
  ResultsDict(self,
    SelectSeq(required_results, LAMBDA r : r.sim >= self.strong_threshold),
    SelectSeq(required_results,
      LAMBDA r : self.weak_threshold <= r.sim /\ r.sim < self.strong_threshold),
    SelectSeq(required_results, LAMBDA r : r.sim < self.weak_threshold),
    optional_results,
    MeanOrZero(Sims(required_results)),
    MeanOrZero(Sims(optional_results)))

\* [self._find_best_match(skill, candidate_skills, embedding_map) for skill in job_skills]
BestMatches(self, job_skills, candidate_skills, embedding_map) ==
  [i \in 1..Len(job_skills) |->
     _find_best_match(self, job_skills[i], candidate_skills, embedding_map)]

MarkOk(self, found) == [i \in 1..Len(found) |-> WithOk(self, found[i])]

\* the try block from embedding_map on
MatchWithMap(self, embedding_map, candidate_skills, job_required, job_optional) ==
  Aggregate(self,
    BestMatches(self, job_required, candidate_skills, embedding_map),
    MarkOk(self, BestMatches(self, job_optional, candidate_skills, embedding_map)))

\* the body of the try block after the cache is filled: the results dict
MatchResults(self, cache, candidate_skills, job_required, job_optional) ==
  MatchWithMap(self,
    [t \in AllTexts(candidate_skills, job_required, job_optional) |-> cache[t]],
    candidate_skills, job_required, job_optional)

\* SkillMatcher._generate_metadata (the timestamp and the processing time, two
\* clock reads, are left out); results and error_message are Optional
_generate_metadata(self, candidate_skills_list, job_required, job_optional, results, error_message) ==
  LET status == IF IsNone(error_message) THEN "success" ELSE "failed"
      filled == status = "success" /\ ~IsNone(results)
  IN [source_identifiers |->
        [candidate |-> [type |-> "file_system", id |-> "unknown_candidate"],
         job |-> [type |-> "file_system", id |-> "unknown_job"]],
      matching_details |->
        [status |-> status,
         config_used |->
           [model_name |-> self.config.model_settings.model_name,
            thresholds |-> self.config.skill_thresholds,
            weights |-> [similarity |-> self.config.similarity_weights,
                         skill_scoring |-> self.config.scoring_weights],
            normalization |-> self.config.normalization,
            data_files |-> [synonym_file |-> self.config.synonym_file,
                            acronym_file |-> self.config.acronym_file]],
         error_message |-> error_message,
         input_counts |->
           IF filled
           THEN Some([total_candidate_skills |-> Len(candidate_skills_list),
                      total_job_required_skills |-> Len(job_required),
                      total_job_optional_skills |-> Len(job_optional)])
           ELSE None],
      matching_results_summary |->
        IF filled
        THEN Some([overall_score |-> results[1].score,
                   required_match_score |-> results[1].required_match_score,
                   optional_match_score |-> results[1].optional_match_score,
                   summary_counts |-> results[1].summary])
        ELSE None]

\* the finally block of match_skills.  results is None when a step of the try
\* block raised; the handler's "except Exception as e" has then unbound e on
\* leaving the except clause, and str(e) raises UnboundLocalError before
\* _generate_metadata is called: the call raises and returns nothing.
FinallyBlock(self, candidate_skills, job_required, job_optional, results) ==
  IF IsNone(results)
  THEN [raised |-> Some("UnboundLocalError"), value |-> None]
  ELSE [raised |-> None,
        value |-> Some([results |-> results[1],
                        metadata |-> _generate_metadata(self, candidate_skills, job_required,
                                                        job_optional, results, None)])]

(***************************************************************************)
(* The state machine: one SkillMatcher instance and its caller             *)
(***************************************************************************)
VARIABLES
  self,             \* the fields __init__ sets from the configuration
  embedding_cache,  \* self.embedding_cache: text -> embedding
  cache_file,       \* the cache file: None (missing) or Some([valid, data])
  pc,               \* "idle", or "done" when a match_skills call has ended
  call,             \* the arguments of the call that ended (None when idle)
  ret,              \* how it ended: [raised, value] (None when idle)
  peer_cache        \* the embedding_cache of a second matcher that uses the same
                    \* cache file: None while there is no second matcher

vars == <<self, embedding_cache, cache_file, pc, call, ret, peer_cache>>

MaxCandidates == 2
MaxRequired == 2
MaxOptional == 1
\* the largest factor the scoring weights are multiplied by
MaxFactor == 2

SeqsUpTo(S, n) == UNION {[1..k -> S] : k \in 0..n}

\* the candidate lists: up to MaxCandidates distinct candidate texts, in any order
CandidateLists ==
  {l \in SeqsUpTo(CandidateTexts, MaxCandidates) :
     \A i, j \in 1..Len(l) : i # j => l[i] # l[j]}
RequiredLists == SeqsUpTo(RequiredSkills, MaxRequired)
OptionalArgs == {None} \cup {Some(l) : l \in SeqsUpTo(OptionalSkills, MaxOptional)}

\* what the cache file holds when the matcher is constructed
InitialFiles ==
  {None,
   Some([valid |-> FALSE, data |-> EmptyCache]),
   Some([valid |-> TRUE, data |-> CacheWith(EmptyCache, {T_a})])}

Init ==
  /\ self \in {SkillMatcher(c) : c \in ConfigSources}
  /\ cache_file \in InitialFiles
  /\ embedding_cache = _load_cache(cache_file)
  /\ pc = "idle"
  /\ call = None
  /\ ret = None
  /\ peer_cache = None

\* the arguments of a call, as the call variable keeps them
CallRecord(candidate_skills, job_required, job_optional_arg, step_raised) ==
  Some([candidate_skills |-> candidate_skills,
        job_required |-> job_required,
        job_optional |-> job_optional_arg,
        step_raised |-> step_raised])

\* match_skills from the cache fill on, when no step raises
EncodeAndMatch(candidate_skills, job_required, job_optional, texts_to_encode, dump_fails) ==
  /\ dump_fails => texts_to_encode # {}
  /\ embedding_cache' = CacheWith(embedding_cache, texts_to_encode)
  /\ cache_file' = IF texts_to_encode # {}
                   THEN _save_cache(CacheWith(embedding_cache, texts_to_encode),
                                    cache_file, dump_fails)
                   ELSE cache_file
  /\ ret' = FinallyBlock(self, candidate_skills, job_required, job_optional,
              Some(MatchResults(self, CacheWith(embedding_cache, texts_to_encode),
                                candidate_skills, job_required, job_optional)))

\* match_skills when no step raises; dump_fails: joblib.dump raises in _save_cache
MatchSkillsReturns(candidate_skills, job_required, job_optional_arg, dump_fails) ==
  /\ pc = "idle"
  /\ EncodeAndMatch(candidate_skills, job_required, OptionalOrEmpty(job_optional_arg),
       TextsToEncode(embedding_cache, candidate_skills, job_required,
                     OptionalOrEmpty(job_optional_arg)),
       dump_fails)
  /\ call' = CallRecord(candidate_skills, job_required, job_optional_arg, FALSE)
  /\ pc' = "done"
  /\ UNCHANGED <<self, peer_cache>>

\* match_skills when self.model.encode raises: nothing is stored or saved, the
\* except clause logs the error and results stays None
MatchSkillsEncodeRaises(candidate_skills, job_required, job_optional_arg) ==
  /\ pc = "idle"
  /\ TextsToEncode(embedding_cache, candidate_skills, job_required,
                   OptionalOrEmpty(job_optional_arg)) # {}
  /\ call' = CallRecord(candidate_skills, job_required, job_optional_arg, TRUE)
  /\ ret' = FinallyBlock(self, candidate_skills, job_required,
                         OptionalOrEmpty(job_optional_arg), None)
  /\ pc' = "done"
  /\ UNCHANGED <<self, embedding_cache, cache_file, peer_cache>>

\* the caller takes what the call gave and may call again
CallerContinues ==
  /\ pc = "done"
  /\ pc' = "idle"
  /\ call' = None
  /\ ret' = None
  /\ UNCHANGED <<self, embedding_cache, cache_file, peer_cache>>

\* the calls of a matcher whose cache file can be written
Next ==
  \/ \E c \in CandidateLists, r \in RequiredLists, o \in OptionalArgs :
       MatchSkillsReturns(c, r, o, FALSE)
  \/ \E c \in CandidateLists, r \in RequiredLists, o \in OptionalArgs :
       MatchSkillsEncodeRaises(c, r, o)
  \/ CallerContinues

Spec == Init /\ [][Next]_vars

\* the same, where joblib.dump may also fail in any call that encodes
NextIO ==
  \/ Next
  \/ \E c \in CandidateLists, r \in RequiredLists, o \in OptionalArgs :
       MatchSkillsReturns(c, r, o, TRUE)

SpecIO == Init /\ [][NextIO]_vars

(***************************************************************************)
(* What a call that has ended gave                                         *)
(***************************************************************************)
Done == pc = "done"
Returned == pc = "done" /\ ~IsNone(ret.value)
TheCall == call[1]
Results == ret.value[1].results
Metadata == ret.value[1].metadata
GivenOptional == OptionalOrEmpty(TheCall.job_optional)

WithoutOk(r) ==
  [skill |-> r.skill, match |-> r.match, sim |-> r.sim, components |-> r.components]

\* the required results a returned call lists, each once: a result below the
\* strong threshold is in weak or in missing, never in both
RequiredListed ==
  Results.required.strong \o Results.required.weak
    \o SelectSeq(Results.required.missing, LAMBDA r : r.sim < self.strong_threshold)

RequiredResultSet ==
  Range(Results.required.strong) \cup Range(Results.required.weak)
    \cup Range(Results.required.missing)

\* the embedding map match_skills builds for a call
CallEmbeddingMap(candidate_skills, job_required, job_optional) ==
  [t \in AllTexts(candidate_skills, job_required, job_optional) |-> Embedding(t)]

(***************************************************************************)
(* C1: if a step inside match_skills raises (the embedding model's encode  *)
(* fails), match_skills still returns a record whose metadata has status   *)
(* "failed" and a non-null error_message, together with empty results.     *)
(* The code does not: the call raises UnboundLocalError.                   *)
(***************************************************************************)
C1_FailedRecordReturned ==
  (Done /\ TheCall.step_raised) =>
    /\ IsNone(ret.raised)
    /\ ~IsNone(ret.value)
    /\ Metadata.matching_details.status = "failed"
    /\ ~IsNone(Metadata.matching_details.error_message)
    /\ DOMAIN Results = {}

(***************************************************************************)
(* C2: an optional job skill written as a disjunction is scored, every     *)
(* alternative against every candidate, exactly as a required skill with   *)
(* the same text and the same candidates is.  The code does not: the       *)
(* alternatives of an optional skill are never encoded.                    *)
(***************************************************************************)
AsRequired(job_skill, candidate_skills) ==
  _find_best_match(self, job_skill, candidate_skills,
                   CallEmbeddingMap(candidate_skills, <<job_skill>>, << >>))

C2_OptionalScoredAsRequired ==
  Returned =>
    \A i \in 1..Len(Results.nice) :
      WithoutOk(Results.nice[i]) = AsRequired(GivenOptional[i], TheCall.candidate_skills)

(***************************************************************************)
(* C3: for a job skill whose alternatives and candidates all have          *)
(* embeddings, sim is the rounded maximum, over all (alternative,          *)
(* candidate) pairs, of the weighted score, and match and components come  *)
(* from a pair that attains it.  The code does not: a maximum that is not  *)
(* positive is reported as sim 0 with no match.                            *)
(***************************************************************************)
\* semantic_weight * semantic_sim + lexical_weight * lexical_sim, in 10^-8
PairScore(part, cand_skill) ==
  self.semantic_weight * cos_sim(Embedding(part), Embedding(cand_skill))
    + self.lexical_weight * lexical_similarity(self.normalizer, part, cand_skill)

PairsOf(job_skill) == Range(SplitParts(job_skill)) \X Range(TheCall.candidate_skills)

IsBestPair(job_skill, p) ==
  \A q \in PairsOf(job_skill) : PairScore(q[1], q[2]) <= PairScore(p[1], p[2])

ReportsPair(r, p) ==
  /\ r.sim = RoundDiv(PairScore(p[1], p[2]), (SimScale * WeightScale) \div RoundScale)
  /\ r.match = Some(p[2])
  /\ r.components.semantic
       = RoundDiv(cos_sim(Embedding(p[1]), Embedding(p[2])), SimScale \div RoundScale)
  /\ r.components.lexical
       = RoundDiv(lexical_similarity(self.normalizer, p[1], p[2]), SimScale \div RoundScale)

C3_SimIsMaximumOverPairs ==
  (Returned /\ TheCall.candidate_skills # << >>) =>
    \A r \in RequiredResultSet :
      \E p \in PairsOf(r.skill) : IsBestPair(r.skill, p) /\ ReportsPair(r, p)

(***************************************************************************)
(* C4: the skill field of every match result is the job skill exactly as   *)
(* it was passed, untrimmed and unsplit: the optional results carry the    *)
(* optional skills in order, and the required results carry the required   *)
(* skills, each as often as it was passed.                                 *)
(***************************************************************************)
Skills(results) == [i \in 1..Len(results) |-> results[i].skill]

Count(seq, x) == Cardinality({i \in 1..Len(seq) : seq[i] = x})

C4_SkillFieldVerbatim ==
  Returned =>
    /\ Skills(Results.nice) = GivenOptional
    /\ \A r \in RequiredResultSet : r.skill \in Range(TheCall.job_required)
    /\ \A s \in Range(TheCall.job_required) :
         Count(Skills(RequiredListed), s) = Count(TheCall.job_required, s)

\* a disjunction won by its second alternative, next to an untrimmed skill
C4_Witness ==
  /\ Returned
  /\ \E r \in RequiredResultSet : r.skill = T_a_or_b /\ r.match = Some(T_B)
  /\ \E r \in RequiredResultSet : r.skill = T_b_padded

(***************************************************************************)
(* C5: a result has match None only when no (alternative, candidate) pair  *)
(* of its job skill has both embeddings in the call's embedding map.  The  *)
(* code does not: a pair whose score is not positive is dropped.           *)
(***************************************************************************)
HasEmbeddedPair(job_skill) ==
  \E p \in PairsOf(job_skill) :
    {p[1], p[2]} \subseteq
      AllTexts(TheCall.candidate_skills, TheCall.job_required, GivenOptional)

C5_NoneOnlyWithoutPairs ==
  Returned =>
    \A r \in RequiredResultSet \cup {WithoutOk(Results.nice[i]) : i \in 1..Len(Results.nice)} :
      IsNone(r.match) => ~HasEmbeddedPair(r.skill)

(***************************************************************************)
(* C6: among the categorised required results, a sim equal to              *)
(* strong_threshold is in strong and not in weak, and a sim equal to       *)
(* weak_threshold is in weak and not in missing.  As stated this fails     *)
(* when the two thresholds are not in strict order.                        *)
(***************************************************************************)
InList(r, list) == r \in Range(list)

C6_BoundariesAsStated ==
  Returned =>
    \A r \in RequiredResultSet :
      /\ r.sim = self.strong_threshold =>
           InList(r, Results.required.strong) /\ ~InList(r, Results.required.weak)
      /\ r.sim = self.weak_threshold =>
           InList(r, Results.required.weak) /\ ~InList(r, Results.required.missing)

(***************************************************************************)
(* C6 as it holds: a sim equal to strong_threshold is in strong and not    *)
(* in weak; a sim equal to weak_threshold is never in missing, and it is   *)
(* in weak (and not in strong) exactly when weak_threshold is below        *)
(* strong_threshold.                                                       *)
(***************************************************************************)
C6_Boundaries ==
  Returned =>
    \A r \in RequiredResultSet :
      /\ r.sim = self.strong_threshold =>
           InList(r, Results.required.strong) /\ ~InList(r, Results.required.weak)
      /\ r.sim = self.weak_threshold =>
           /\ ~InList(r, Results.required.missing)
           /\ InList(r, Results.required.weak) <=> self.weak_threshold < self.strong_threshold
           /\ InList(r, Results.required.strong) <=> self.weak_threshold >= self.strong_threshold

\* one result on each threshold, the thresholds in strict order
C6_Witness ==
  /\ Returned
  /\ self.weak_threshold < self.strong_threshold
  /\ \E r \in Range(Results.required.strong) : r.sim = self.strong_threshold
  /\ \E r \in Range(Results.required.weak) : r.sim = self.weak_threshold

(***************************************************************************)
(* C7: whenever weak_threshold <= strong_threshold, every required result  *)
(* of a call that returned is in exactly one of strong, weak, missing, and *)
(* req_strong + req_weak + req_missing is the number of required skills.   *)
(***************************************************************************)
AllRequiredLists ==
  Results.required.strong \o Results.required.weak \o Results.required.missing

C7_RequiredPartition ==
  (Returned /\ self.weak_threshold <= self.strong_threshold) =>
    /\ Range(Results.required.strong) \cap Range(Results.required.weak) = {}
    /\ Range(Results.required.strong) \cap Range(Results.required.missing) = {}
    /\ Range(Results.required.weak) \cap Range(Results.required.missing) = {}
    /\ \A s \in Range(TheCall.job_required) :
         Count(Skills(AllRequiredLists), s) = Count(TheCall.job_required, s)
    /\ Results.summary.req_strong = Len(Results.required.strong)
    /\ Results.summary.req_weak = Len(Results.required.weak)
    /\ Results.summary.req_missing = Len(Results.required.missing)
    /\ Results.summary.req_strong + Results.summary.req_weak + Results.summary.req_missing
         = Len(TheCall.job_required)

\* two required skills that land in two different lists, one on a threshold
C7_Witness ==
  /\ Returned
  /\ self.weak_threshold <= self.strong_threshold
  /\ Len(TheCall.job_required) = MaxRequired
  /\ Results.summary.req_strong > 0
  /\ Results.summary.req_weak > 0
  /\ \E r \in Range(Results.required.weak) : r.sim = self.weak_threshold

(***************************************************************************)
(* C8: with an empty candidate list, for any required list and any         *)
(* thresholds in [0,1] with weak <= strong, every result has match None    *)
(* and sim 0, required_match_score is 0 and req_missing is the number of   *)
(* required skills.  As stated this fails for a weak threshold of 0.       *)
(***************************************************************************)
NoCandidates == TheCall.candidate_skills = << >>

AllUnmatched ==
  /\ \A r \in RequiredResultSet : IsNone(r.match) /\ r.sim = 0
  /\ \A i \in 1..Len(Results.nice) :
       IsNone(Results.nice[i].match) /\ Results.nice[i].sim = 0
  /\ Results.required_match_score = 0
  /\ Results.summary.req_missing = Len(TheCall.job_required)

C8_NoCandidatesAsStated ==
  (/\ Returned
   /\ NoCandidates
   /\ 0 <= self.weak_threshold
   /\ self.weak_threshold <= self.strong_threshold
   /\ self.strong_threshold <= RoundScale) => AllUnmatched

(***************************************************************************)
(* C8 as it holds: with an empty candidate list and thresholds with        *)
(* 0 < weak <= strong <= 1, every result has match None and sim 0,         *)
(* required_match_score is 0 and req_missing is the number of required     *)
(* skills.                                                                 *)
(***************************************************************************)
C8_NoCandidates ==
  (/\ Returned
   /\ NoCandidates
   /\ 0 < self.weak_threshold
   /\ self.weak_threshold <= self.strong_threshold
   /\ self.strong_threshold <= RoundScale) => AllUnmatched

\* the scenario of the specification: two required skills, no candidate
C8_Witness ==
  /\ Returned
  /\ NoCandidates
  /\ 0 < self.weak_threshold
  /\ self.weak_threshold <= self.strong_threshold
  /\ Len(TheCall.job_required) = MaxRequired
  /\ Len(Results.nice) > 0
  /\ Results.summary.req_missing = MaxRequired

(***************************************************************************)
(* C9: a call in which no step raises ends with status "success"; with an  *)
(* empty required list required_match_score is 0, and with an empty or an  *)
(* omitted optional list optional_match_score is 0.                        *)
(***************************************************************************)
C9_EmptyListsSucceed ==
  (Done /\ ~TheCall.step_raised) =>
    /\ IsNone(ret.raised)
    /\ ~IsNone(ret.value)
    /\ Metadata.matching_details.status = "success"
    /\ IsNone(Metadata.matching_details.error_message)
    /\ TheCall.job_required = << >> =>
         Results.required_match_score = 0 /\ Results.summary.req_missing = 0
    /\ GivenOptional = << >> =>
         Results.optional_match_score = 0 /\ Results.nice = << >>
    /\ (TheCall.job_required = << >> /\ GivenOptional = << >>) => Results.score = 0

\* no required skill and the optional list omitted, with candidates to match
C9_Witness ==
  /\ Returned
  /\ TheCall.job_required = << >>
  /\ IsNone(TheCall.job_optional)
  /\ TheCall.candidate_skills # << >>
  /\ Metadata.matching_details.status = "success"

(***************************************************************************)
(* C10: score is rel_req * mean(required sims) + rel_opt * mean(optional   *)
(* sims), rel_req and rel_opt being the shares of the two scoring weights  *)
(* in their sum, so that rel_req + rel_opt = 1 and multiplying both        *)
(* weights by one positive factor leaves every output of match_skills      *)
(* unchanged.  As stated this fails: the metadata echoes the weights.      *)
(***************************************************************************)
Scaled(config, k) ==
  [config EXCEPT !.scoring_weights =
     [required_skill |-> k * config.scoring_weights.required_skill,
      optional_skill |-> k * config.scoring_weights.optional_skill]]

\* what the call that ended returns from a matcher built on another configuration
ResultsUnder(config) ==
  MatchResults(SkillMatcher(config), embedding_cache, TheCall.candidate_skills,
               TheCall.job_required, GivenOptional)

OutputUnder(config) ==
  FinallyBlock(SkillMatcher(config), TheCall.candidate_skills, TheCall.job_required,
               GivenOptional, Some(ResultsUnder(config))).value[1]

\* round((wr * sum_r / n_r + wo * sum_o / n_o) / (wr + wo), 4); an empty list
\* has mean 0
WeightedMean(wr, sum_r, n_r, wo, sum_o, n_o) ==
  RoundDiv(wr * sum_r * Max2(n_o, 1) + wo * sum_o * Max2(n_r, 1),
           (wr + wo) * Max2(n_r, 1) * Max2(n_o, 1))

ScoreIsWeightedMean ==
  Results.score =
    WeightedMean(self.config.scoring_weights.required_skill,
                 SumSeq(Sims(RequiredListed)), Len(RequiredListed),
                 self.config.scoring_weights.optional_skill,
                 SumSeq(Sims(Results.nice)), Len(Results.nice))

RelativeWeightsAreShares ==
  LET rw == self.required_skill_relative_weight
      ow == self.optional_skill_relative_weight
      w == self.config.scoring_weights
  IN /\ rw.num * (w.required_skill + w.optional_skill) = w.required_skill * rw.den
     /\ ow.num * (w.required_skill + w.optional_skill) = w.optional_skill * ow.den
     /\ rw.num * ow.den + ow.num * rw.den = rw.den * ow.den

C10_ScalingAsStated ==
  Returned =>
    /\ ScoreIsWeightedMean
    /\ RelativeWeightsAreShares
    /\ \A k \in 2..MaxFactor : OutputUnder(Scaled(self.config, k)) = ret.value[1]

(***************************************************************************)
(* C10 as it holds: score is the weighted mean above, rel_req + rel_opt =  *)
(* 1, and multiplying both scoring weights by one positive factor leaves   *)
(* the results of match_skills unchanged; of the metadata only the echoed  *)
(* config_used.weights.skill_scoring changes.                              *)
(***************************************************************************)
\* the metadata of the call from a matcher built on another configuration
MetadataUnder(config, results) ==
  _generate_metadata(SkillMatcher(config), TheCall.candidate_skills, TheCall.job_required,
                     GivenOptional, Some(results), None)

\* results, which another configuration gives, are those of the call, and so is
\* the metadata but for the echoed scoring weights
SameButEcho(config, results) ==
  /\ results = Results
  /\ [MetadataUnder(config, results)
        EXCEPT !.matching_details.config_used.weights.skill_scoring =
                 self.config.scoring_weights]
       = Metadata

C10_ScalingKeepsResults ==
  Returned =>
    /\ ScoreIsWeightedMean
    /\ RelativeWeightsAreShares
    /\ \A k \in 2..MaxFactor :
         SameButEcho(Scaled(self.config, k), ResultsUnder(Scaled(self.config, k)))

\* both means positive and weights that do not add up to one
C10_Witness ==
  /\ Returned
  /\ self.config.scoring_weights.required_skill
       + self.config.scoring_weights.optional_skill # WeightScale
  /\ Results.required_match_score > 0
  /\ Results.optional_match_score > 0
  /\ Results.required_match_score # Results.optional_match_score
  /\ Results.score > 0

(***************************************************************************)
(* _find_best_match on its own: any embedding map over the texts, and      *)
(* similarity weights that need not add up to one                          *)
(***************************************************************************)
\* similarity weights whose sum is above one, in hundredths
OverUnitWeights == [semantic |-> 70, lexical |-> 60]

BestConfigSources ==
  ConfigSources \cup {[c EXCEPT !.similarity_weights = OverUnitWeights] : c \in ConfigSources}

\* unit vectors (scaled by 25) an embedding model can give a text
EmbeddingSpace == {<<25, 0>>, <<-7, 24>>, <<7, 24>>, <<-25, 0>>}

\* the embedding maps: some of the texts, each with a vector
BestEmbeddingMaps ==
  UNION {[D -> EmbeddingSpace] : D \in SUBSET (PartTexts \cup CandidateTexts)}

InitBest ==
  /\ self \in {SkillMatcher(c) : c \in BestConfigSources}
  /\ cache_file = None
  /\ embedding_cache = EmptyCache
  /\ pc = "idle"
  /\ call = None
  /\ ret = None
  /\ peer_cache = None

\* one call of _find_best_match
FindBestMatch(job_skill, candidate_skills, embedding_map) ==
  /\ pc = "idle"
  /\ call' = Some([job_skill |-> job_skill, candidate_skills |-> candidate_skills,
                   embedding_map |-> embedding_map])
  /\ ret' = [raised |-> None,
             value |-> Some(_find_best_match(self, job_skill, candidate_skills,
                                             embedding_map))]
  /\ pc' = "done"
  /\ UNCHANGED <<self, embedding_cache, cache_file, peer_cache>>

NextBest ==
  \/ \E s \in RequiredSkills, c \in CandidateLists, m \in BestEmbeddingMaps :
       FindBestMatch(s, c, m)
  \/ CallerContinues

SpecBest == InitBest /\ [][NextBest]_vars

BestResult == ret.value[1]

(***************************************************************************)
(* C11: the sim of every match result lies in [0,1], whatever the          *)
(* configured similarity weights and the cosine of the embeddings.  The    *)
(* code does not: the weighted sum is reported as it is, and weights       *)
(* whose sum is above one give a sim above one.                            *)
(***************************************************************************)
C11_SimInUnitInterval ==
  pc = "done" => 0 <= BestResult.sim /\ BestResult.sim <= RoundScale

(***************************************************************************)
(* C12: components.semantic of every match result lies in [0,1].  The code *)
(* does not: the raw cosine is used and reported, and a pair with a        *)
(* negative cosine wins when its lexical similarity outweighs it.          *)
(***************************************************************************)
C12_SemanticInUnitInterval ==
  pc = "done" =>
    0 <= BestResult.components.semantic /\ BestResult.components.semantic <= RoundScale


\* ---------------------------------------------------------------------------
\* The embedding cache and its file: one matcher observed step by step, and a
\* second matcher of the same model that shares the cache file
\* ---------------------------------------------------------------------------

\* The configuration of the shipped config file.
DefaultConfig ==
  CHOOSE c \in ConfigSources :
    /\ c.skill_thresholds = [strong |-> 8500, weak |-> 6500, nice |-> 6000]
    /\ c.normalization = AllNormalization

\* The calls of this specification: at most one candidate, at most one required
\* skill, no optional list.
CacheCandidateLists == {<< >>} \cup {<<t>> : t \in CandidateTexts}

CacheRequiredLists == {<< >>} \cup {<<t>> : t \in RequiredSkills}

\* What the cache file holds before the first matcher is built: nothing, a file
\* joblib cannot load (its bytes are not a cache, whatever they resemble), or a
\* cache saved earlier.
CacheInitialFiles ==
  { None,
    Some([valid |-> FALSE, data |-> CacheWith(EmptyCache, {T_B})]),
    Some([valid |-> TRUE, data |-> CacheWith(EmptyCache, {T_a})]) }

InitCache ==
  /\ self = SkillMatcher(DefaultConfig)
  /\ cache_file \in CacheInitialFiles
  /\ embedding_cache = _load_cache(cache_file)
  /\ pc = "idle"
  /\ call = None
  /\ ret = None
  /\ peer_cache = None

\* _save_cache catches whatever joblib.dump raises and logs it: nothing
\* propagates to match_skills (first, a variant that lets it through).
SaveCacheRaises_Uncaught(dump_fails) == dump_fails

SaveCacheRaises(dump_fails) == FALSE

\* The record of a call of this specification: who made it, its arguments, the
\* batches handed to model.encode in order, and whether joblib.dump failed.
CacheCallRecord(instance, c, r, o, texts_to_encode, dump_fails) ==
  Some([instance |-> instance, candidate_skills |-> c, job_required |-> r,
        job_optional |-> o, step_raised |-> FALSE,
        encode_calls |-> IF texts_to_encode = {} THEN << >> ELSE <<texts_to_encode>>,
        dump_failed |-> texts_to_encode # {} /\ dump_fails])

\* match_skills up to and including the save of line 201.
EncodeAndSave(c, r, o, texts_to_encode, dump_fails) ==
  /\ dump_fails => texts_to_encode # {}
  /\ embedding_cache' = CacheWith(embedding_cache, texts_to_encode)
  /\ cache_file' = IF texts_to_encode = {}
                   THEN cache_file
                   ELSE _save_cache(CacheWith(embedding_cache, texts_to_encode), cache_file, dump_fails)
  /\ call' = CacheCallRecord("self", c, r, o, texts_to_encode, dump_fails)
  /\ IF texts_to_encode # {} /\ SaveCacheRaises(dump_fails)
     THEN /\ pc' = "done"
          /\ ret' = FinallyBlock(self, c, r, OptionalOrEmpty(o), None)
     ELSE /\ pc' = "matching"
          /\ ret' = None
  /\ UNCHANGED <<self, peer_cache>>

MatchSkillsEncodes(c, r, o, dump_fails) ==
  /\ pc = "idle"
  /\ EncodeAndSave(c, r, o, TextsToEncode(embedding_cache, c, r, OptionalOrEmpty(o)), dump_fails)

\* The rest of match_skills: the embedding map, the matching, the aggregation
\* and the finally block.
MatchSkillsMatches ==
  /\ pc = "matching"
  /\ ret' = FinallyBlock(self, call[1].candidate_skills, call[1].job_required,
                         OptionalOrEmpty(call[1].job_optional),
                         Some(MatchResults(self, embedding_cache, call[1].candidate_skills,
                                           call[1].job_required,
                                           OptionalOrEmpty(call[1].job_optional))))
  /\ pc' = "done"
  /\ UNCHANGED <<self, embedding_cache, cache_file, call, peer_cache>>

\* A second SkillMatcher is constructed for the same model: __init__ loads the
\* cache file.
PeerConstructs ==
  /\ IsNone(peer_cache)
  /\ peer_cache' = Some(_load_cache(cache_file))
  /\ UNCHANGED <<self, embedding_cache, cache_file, pc, call, ret>>

PeerEncodeAndMatch(c, r, o, texts_to_encode) ==
  /\ peer_cache' = Some(CacheWith(peer_cache[1], texts_to_encode))
  /\ cache_file' = IF texts_to_encode = {}
                   THEN cache_file
                   ELSE _save_cache(CacheWith(peer_cache[1], texts_to_encode), cache_file, FALSE)
  /\ call' = CacheCallRecord("peer", c, r, o, texts_to_encode, FALSE)
  /\ ret' = FinallyBlock(self, c, r, OptionalOrEmpty(o),
                         Some(MatchResults(self, CacheWith(peer_cache[1], texts_to_encode),
                                           c, r, OptionalOrEmpty(o))))
  /\ pc' = "done"
  /\ UNCHANGED <<self, embedding_cache>>

\* A whole match_skills call of the second matcher, between two calls of the
\* first.
PeerMatchSkills(c, r, o) ==
  /\ pc = "idle"
  /\ ~IsNone(peer_cache)
  /\ PeerEncodeAndMatch(c, r, o, TextsToEncode(peer_cache[1], c, r, OptionalOrEmpty(o)))

\* The second matcher is collected: __del__ saves its cache.
PeerDel ==
  /\ ~IsNone(peer_cache)
  /\ cache_file' = _save_cache(peer_cache[1], cache_file, FALSE)
  /\ peer_cache' = None
  /\ UNCHANGED <<self, embedding_cache, pc, call, ret>>

NextCache ==
  \/ \E c \in CacheCandidateLists, r \in CacheRequiredLists :
       MatchSkillsEncodes(c, r, None, FALSE)
  \/ MatchSkillsMatches
  \/ PeerConstructs
  \/ \E c \in CacheCandidateLists, r \in CacheRequiredLists :
       PeerMatchSkills(c, r, None)
  \/ PeerDel
  \/ CallerContinues

SpecCache == InitCache /\ [][NextCache]_vars

\* The same, where joblib.dump may fail.
NextCacheIO ==
  \/ NextCache
  \/ \E c \in CacheCandidateLists, r \in CacheRequiredLists :
       MatchSkillsEncodes(c, r, None, TRUE)

SpecCacheIO == InitCache /\ [][NextCacheIO]_vars


\* The texts of a recorded call, and the cache its instance held when it began.
TextsOfCall(rec) ==
  AllTexts(rec.candidate_skills, rec.job_required, OptionalOrEmpty(rec.job_optional))

CallBegins == IsNone(call) /\ ~IsNone(call')

CacheBefore == IF call'[1].instance = "self" THEN embedding_cache ELSE peer_cache[1]

AbsentBefore == TextsOfCall(call'[1]) \ DOMAIN CacheBefore

\* C13: in each match_skills call encode is invoked at most once, with exactly
\* the distinct texts of the call that the cache does not hold (a batch is a set
\* of texts: all_texts is built with set()), not at all when every text is
\* cached, and the matching that follows invokes it no more.
C13_EncodeOncePerCall ==
  [][ /\ CallBegins =>
           call'[1].encode_calls = IF AbsentBefore = {} THEN << >> ELSE <<AbsentBefore>>
      /\ pc = "matching" => call' = call ]_vars

\* A call that found one of its texts in the cache and encoded the rest, in one
\* batch, is about to match.
C13_Witness ==
  /\ pc = "matching"
  /\ Len(call[1].encode_calls) = 1
  /\ call[1].encode_calls[1] # TextsOfCall(call[1])


SelfCallBegins == CallBegins /\ call'[1].instance = "self"

PeerCallBegins == CallBegins /\ call'[1].instance = "peer"

PeerIsBuilt == IsNone(peer_cache) /\ ~IsNone(peer_cache')

\* C14: a call that inserts embeddings writes the whole cache to the file
\* before the matching starts (the call is then at "matching" and has no result
\* yet); a call that begins with the file equal to the cache leaves them equal,
\* so they are equal after any sequence of calls of one matcher; and a matcher
\* built later starts from the file and encodes none of the texts it found
\* there.
C14_SavedBeforeMatching ==
  [][ /\ (SelfCallBegins /\ call'[1].encode_calls # << >>) =>
           /\ pc' = "matching" /\ IsNone(ret')
           /\ cache_file' = Some([valid |-> TRUE, data |-> embedding_cache'])
           /\ call'[1].encode_calls[1] \subseteq DOMAIN embedding_cache'
      /\ (SelfCallBegins /\ _load_cache(cache_file) = embedding_cache) =>
           _load_cache(cache_file') = embedding_cache'
      /\ PeerIsBuilt => peer_cache'[1] = _load_cache(cache_file)
      /\ (PeerCallBegins /\ call'[1].encode_calls # << >>) =>
           call'[1].encode_calls[1] \cap DOMAIN peer_cache[1] = {} ]_vars

\* The first matcher has encoded a text and saved it and has not started to
\* match; a matcher built after an earlier save holds what that save wrote.
C14_Witness ==
  /\ pc = "matching"
  /\ IsNone(ret)
  /\ call[1].encode_calls # << >>
  /\ cache_file = Some([valid |-> TRUE, data |-> embedding_cache])
  /\ ~IsNone(peer_cache)
  /\ peer_cache[1] # EmptyCache
  /\ DOMAIN peer_cache[1] \subseteq DOMAIN embedding_cache


PeerIsCollected == ~IsNone(peer_cache) /\ IsNone(peer_cache')

Saved(cache) == Some([valid |-> TRUE, data |-> cache])

\* C15: every write leaves in the file exactly the in-memory cache of the
\* matcher that wrote (a call that encoded, or a destructor), whatever the file
\* held, and nothing else changes the file; with two matchers on one file this
\* loses updates (C15_Witness).
C15_LastWriterWins ==
  [][ /\ (SelfCallBegins /\ call'[1].encode_calls # << >>) => cache_file' = Saved(embedding_cache')
      /\ (PeerCallBegins /\ call'[1].encode_calls # << >>) => cache_file' = Saved(peer_cache'[1])
      /\ PeerIsCollected => cache_file' = Saved(peer_cache[1])
      /\ cache_file' # cache_file =>
           \/ CallBegins /\ call'[1].encode_calls # << >>
           \/ PeerIsCollected ]_vars

\* Between two calls, the first matcher holds an embedding that is no longer in
\* the file, although every write of this specification succeeds and the matcher
\* saved each embedding it encoded: a write of the other matcher replaced it.
C15_Witness ==
  /\ pc = "idle"
  /\ ~IsNone(cache_file)
  /\ cache_file[1].valid
  /\ \E t \in DOMAIN embedding_cache : t \notin DOMAIN cache_file[1].data


Unloadable(file) == IsNone(file) \/ ~file[1].valid

Encoded(rec) == IF rec.encode_calls = << >> THEN {} ELSE rec.encode_calls[1]

\* C17: a matcher built while the cache file is missing or cannot be loaded is
\* built all the same (the step is taken, no one's call is disturbed) and starts
\* with an empty cache; the file is read at construction only: a call adds to
\* the cache of its matcher the texts it encoded and nothing else, whatever the
\* file holds by then, and no other step changes a cache.
C17_LoadOnceAtConstruction ==
  [][ /\ (PeerIsBuilt /\ Unloadable(cache_file)) =>
           peer_cache' = Some(EmptyCache) /\ cache_file' = cache_file /\ pc' = pc
      /\ SelfCallBegins =>
           /\ DOMAIN embedding_cache' = DOMAIN embedding_cache \cup Encoded(call'[1])
           /\ peer_cache' = peer_cache
      /\ PeerCallBegins =>
           /\ DOMAIN peer_cache'[1] = DOMAIN peer_cache[1] \cup Encoded(call'[1])
           /\ embedding_cache' = embedding_cache
      /\ ~CallBegins => embedding_cache' = embedding_cache
      /\ ~(CallBegins \/ PeerIsBuilt \/ PeerIsCollected) => peer_cache' = peer_cache ]_vars

\* A matcher has been built from a file that is missing or cannot be loaded, and
\* its cache is empty.
C17_Witness ==
  /\ Unloadable(cache_file)
  /\ peer_cache = Some(EmptyCache)
  /\ embedding_cache = EmptyCache

\* C18: when joblib.dump fails in a call, the call goes on to the matching with
\* the texts it encoded in the cache, and returns status "success" with the
\* results the matching gives from that cache, which is what it returns when the
\* write succeeds; the cache of the matcher never loses an entry.
C18_FailedWriteIsHarmless ==
  /\ [](( /\ ~IsNone(call)
          /\ call[1].instance = "self"
          /\ call[1].dump_failed ) =>
          /\ Encoded(call[1]) \subseteq DOMAIN embedding_cache
          /\ pc = "done" =>
               /\ IsNone(ret.raised)
               /\ Metadata.matching_details.status = "success"
               /\ Results = MatchResults(self, embedding_cache, call[1].candidate_skills,
                                         call[1].job_required,
                                         OptionalOrEmpty(call[1].job_optional)))
  /\ [][ \A t \in DOMAIN embedding_cache :
           t \in DOMAIN embedding_cache' /\ embedding_cache'[t] = embedding_cache[t] ]_vars

\* A call whose write failed has returned "success", and a text it encoded is
\* in the cache and not in the file.
C18_Witness ==
  /\ Returned
  /\ call[1].dump_failed
  /\ Metadata.matching_details.status = "success"
  /\ \E t \in Encoded(call[1]) :
       /\ t \in DOMAIN embedding_cache
       /\ t \notin DOMAIN _load_cache(cache_file)


\* ---------------------------------------------------------------------------
\* Construction: Config.__init__ and SkillMatcher.__init__, which may raise
\* ---------------------------------------------------------------------------

\* A dict is a function from its keys; {} is the function of no key.
EmptyDict == << >>

\* d.get(key, default)
Get(d, key, default) == IF key \in DOMAIN d THEN d[key] ELSE default

Raise(exception) == [raised |-> Some(exception), value |-> None]

Return(value) == [raised |-> None, value |-> Some(value)]

\* str.replace(old, new), old and new one character each
Replace(s, old, new) == [i \in 1..Len(s) |-> IF s[i] = old THEN new ELSE s[i]]

\* cache_dir / f"embeddings_{model_name}.joblib", model_name with "/" replaced
\* by "_" (the two literal parts of the file name are one element each)
CacheFilePath(model_name) ==
  [dir |-> "ai_pipeline/data/cache",
   name |-> <<"embeddings_">> \o Replace(model_name, "/", "_") \o <<".joblib">>]

\* Config._load_config_from_file: the dict of the file, {} when the file is
\* missing or is not JSON.  A file is None (missing) or Some([json, data]).
_load_config_from_file(file) ==
  IF IsNone(file) THEN EmptyDict
  ELSE IF file[1].json THEN file[1].data ELSE EmptyDict

\* Config.__init__: a source is a path (kind "str", with the file at that
\* path), a dict, or something else
Config(config_source) ==
  CASE config_source.kind = "str" ->
         IF _load_config_from_file(config_source.file) = EmptyDict
         THEN Raise("ValueError")
         ELSE Return(_load_config_from_file(config_source.file))
    [] config_source.kind = "dict" ->
         IF config_source.data = EmptyDict
         THEN Raise("ValueError")
         ELSE Return(config_source.data)
    [] OTHER -> Raise("TypeError")

ThresholdKeys == {"strong", "weak", "nice"}

\* a variant that reads a threshold with a default
ThresholdItem_Defaulted(skill_thresholds, key) ==
  Return(Get(skill_thresholds, key, 0))

\* self.config.skill_thresholds[key]
ThresholdItem(skill_thresholds, key) ==
  IF key \in DOMAIN skill_thresholds THEN Return(skill_thresholds[key]) ELSE Raise("KeyError")

\* The subscripts of __init__ after the thresholds: the similarity weights, the
\* scoring weights and their sum.
WeightsRaise(data) ==
  LET similarity_weights == Get(data, "similarity_weights", EmptyDict)
      scoring_weights == Get(data, "scoring_weights", EmptyDict)
  IN IF {"semantic", "lexical"} \subseteq DOMAIN similarity_weights
        /\ {"required_skill", "optional_skill"} \subseteq DOMAIN scoring_weights
     THEN IF scoring_weights.required_skill + scoring_weights.optional_skill = 0
          THEN Some("ZeroDivisionError") ELSE None
     ELSE Some("KeyError")

\* SkillMatcher.__init__ with the configuration data Config gave: what it
\* raises, or the fields of the matcher that depend on the model name and on the
\* thresholds (the other fields are those of SkillMatcher above)
InitWithData(data, strong, weak, nice) ==
  IF "model_name" \notin DOMAIN Get(data, "model_settings", EmptyDict)
  THEN Raise("KeyError")
  ELSE IF \E t \in {strong, weak, nice} : ~IsNone(t.raised)
  THEN Raise("KeyError")
  ELSE IF ~IsNone(WeightsRaise(data))
  THEN Raise(WeightsRaise(data)[1])
  ELSE Return([config |-> data,
               cache_file |-> CacheFilePath(data.model_settings.model_name),
               strong_threshold |-> strong.value[1],
               weak_threshold |-> weak.value[1],
               nice_threshold |-> nice.value[1]])

SkillMatcher__init__(config_source) ==
  IF ~IsNone(Config(config_source).raised)
  THEN Config(config_source)
  ELSE InitWithData(Config(config_source).value[1],
         ThresholdItem(Get(Config(config_source).value[1], "skill_thresholds", EmptyDict), "strong"),
         ThresholdItem(Get(Config(config_source).value[1], "skill_thresholds", EmptyDict), "weak"),
         ThresholdItem(Get(Config(config_source).value[1], "skill_thresholds", EmptyDict), "nice"))

\* Model names: a hub name, a name that differs from it in one character, and
\* a name without either character.
ModelNames == {<<"o", "/", "m">>, <<"o", "_", "m">>, <<"o", "m">>}

\* The shipped configuration for a model name, with the thresholds of keys only.
ConfigFor(model_name, keys) ==
  [DefaultConfig EXCEPT !.model_settings = [model_name |-> model_name],
                        !.skill_thresholds = [k \in keys |-> DefaultConfig.skill_thresholds[k]]]

Without(d, key) == [k \in DOMAIN d \ {key} |-> d[k]]

ConstructionSources ==
  {[kind |-> "dict", data |-> ConfigFor(n, keys)] : n \in ModelNames, keys \in SUBSET ThresholdKeys}
    \cup {[kind |-> "dict", data |-> Without(ConfigFor(<<"o", "m">>, ThresholdKeys), "skill_thresholds")],
          [kind |-> "dict", data |-> EmptyDict],
          [kind |-> "str", file |-> None],
          [kind |-> "str", file |-> Some([json |-> FALSE, data |-> EmptyDict])],
          [kind |-> "str", file |-> Some([json |-> TRUE, data |-> ConfigFor(<<"o", "/", "m">>, ThresholdKeys)])],
          [kind |-> "str", file |-> Some([json |-> TRUE,
                                          data |-> ConfigFor(<<"o", "m">>, {"strong", "nice"})])],
          [kind |-> "NoneType"]}

\* No matcher yet; self is None or Some of the matcher the caller keeps.
InitConstruct ==
  /\ self = None
  /\ embedding_cache = EmptyCache
  /\ cache_file = None
  /\ pc = "idle"
  /\ call = None
  /\ ret = None
  /\ peer_cache = None

Construct(config_source) ==
  /\ pc = "idle"
  /\ call' = Some([config_source |-> config_source])
  /\ ret' = SkillMatcher__init__(config_source)
  /\ pc' = "done"
  /\ UNCHANGED <<self, embedding_cache, cache_file, peer_cache>>

\* the caller keeps the matcher the constructor returned
CallerKeeps ==
  /\ pc = "done"
  /\ ~IsNone(ret.value)
  /\ self' = ret.value
  /\ pc' = "idle"
  /\ call' = None
  /\ ret' = None
  /\ UNCHANGED <<embedding_cache, cache_file, peer_cache>>

NextConstruct ==
  \/ \E config_source \in ConstructionSources : Construct(config_source)
  \/ CallerKeeps
  \/ CallerContinues

SpecConstruct == InitConstruct /\ [][NextConstruct]_vars

ModelNameOf(matcher) == matcher.config.model_settings.model_name

\* C16: two matchers whose model names differ never have the same cache file.
C16_CacheFileInjective ==
  (pc = "done" /\ ~IsNone(self) /\ ~IsNone(ret.value)) =>
    (ModelNameOf(self[1]) # ModelNameOf(ret.value[1]) =>
       self[1].cache_file # ret.value[1].cache_file)


\* The source of a construction is a path whose file is missing or is not JSON.
NoConfigFile(config_source) ==
  config_source.kind = "str" /\ (IsNone(config_source.file) \/ ~config_source.file[1].json)

\* The configuration a source gives ({} when it gives none) lacks a threshold.
DataOf(config_source) ==
  CASE config_source.kind = "str" -> _load_config_from_file(config_source.file)
    [] config_source.kind = "dict" -> config_source.data
    [] OTHER -> EmptyDict

LacksThreshold(config_source) ==
  ~(ThresholdKeys \subseteq DOMAIN Get(DataOf(config_source), "skill_thresholds", EmptyDict))

\* The matchers there are: the one the caller keeps, the one just returned.
Matchers ==
  (IF IsNone(self) THEN {} ELSE {self[1]})
    \cup (IF pc = "done" /\ ~IsNone(ret.value) THEN {ret.value[1]} ELSE {})

HasItsThresholds(matcher) ==
  /\ ThresholdKeys \subseteq DOMAIN Get(matcher.config, "skill_thresholds", EmptyDict)
  /\ matcher.strong_threshold = matcher.config.skill_thresholds.strong
  /\ matcher.weak_threshold = matcher.config.skill_thresholds.weak
  /\ matcher.nice_threshold = matcher.config.skill_thresholds.nice

\* C19: a construction from a config file that is missing or is not JSON, or
\* from a configuration that lacks one of the thresholds strong, weak, nice,
\* raises and gives no matcher; so every matcher there is (the only thing
\* match_skills can be called on) has the three thresholds of its configuration.
C19_ConstructionFailsFast ==
  /\ (pc = "done" /\ (NoConfigFile(call[1].config_source) \/ LacksThreshold(call[1].config_source))) =>
       ~IsNone(ret.raised) /\ IsNone(ret.value)
  /\ \A matcher \in Matchers : HasItsThresholds(matcher)

\* A construction from a configuration that has all but the threshold weak has
\* raised KeyError, while the caller holds a matcher built earlier.
C19_Witness ==
  /\ pc = "done"
  /\ ~IsNone(self)
  /\ call[1].config_source.kind = "dict"
  /\ DOMAIN Get(call[1].config_source.data, "skill_thresholds", EmptyDict) = {"strong", "nice"}
  /\ ret = Raise("KeyError")


\* ---------------------------------------------------------------------------
\* TextNormalizer.normalize on its own
\* ---------------------------------------------------------------------------
MaxLen == 3

\* The characters of the texts: a space, a punctuation mark, a letter in both
\* cases.
NormalizeChars == {" ", "-", "b", "B"}

NormalizeTexts == SeqsUpTo(NormalizeChars, MaxLen)

\* Every combination of the flags, without a synonym map, with the map
\* B: ["bb"] and with the map "B-": ["b"], with and without an acronym map
\* (b: "B").
Normalizers ==
  [config : SUBSET AllNormalization,
   synonym_map : {<< >>, _load_json_file("synonyms.json"),
                  << [canonical |-> <<"B", "-">>, synonyms |-> << <<"b">> >>] >>},
   acronym_map : {<< >>, << [lower |-> <<"b">>, upper |-> <<"B">>] >>}]

InitNormalize ==
  /\ self \in Normalizers
  /\ embedding_cache = EmptyCache
  /\ cache_file = None
  /\ pc = "idle"
  /\ call = None
  /\ ret = None
  /\ peer_cache = None

Normalize(text) ==
  /\ pc = "idle"
  /\ call' = Some([text |-> text])
  /\ ret' = Return(normalize(self, text))
  /\ pc' = "done"
  /\ UNCHANGED <<self, embedding_cache, cache_file, peer_cache>>

NextNormalize ==
  \/ \E text \in NormalizeTexts : Normalize(text)
  \/ CallerContinues

SpecNormalize == InitNormalize /\ [][NextNormalize]_vars

\* C20: normalize gives its own result back when it is applied to a result it
\* gave.
C20_NormalizeIdempotent ==
  pc = "done" => normalize(self, ret.value[1]) = ret.value[1]


\* ---------------------------------------------------------------------------
\* match_skills with the order of list(set(...)) and the batch of encode made
\* explicit
\* ---------------------------------------------------------------------------

\* list(set(texts)): the texts, each once, in an order the caller cannot choose
ListsOfSet(texts) == {l \in [1..Cardinality(texts) -> texts] : Range(l) = texts}

\* a variant of encode that gives the vectors in the order of its length-sorted
\* batch, longest first, and not in the order of its argument
encode_Unrestored(texts_to_encode) ==
  LET sorted == CHOOSE l \in ListsOfSet(Range(texts_to_encode)) :
                  \A i, j \in 1..Len(l) : i < j => Len(l[i]) >= Len(l[j])
  IN [i \in 1..Len(texts_to_encode) |-> Embedding(sorted[i])]

\* self.model.encode(texts_to_encode): one vector for each text, in the order
\* of the texts
encode(texts_to_encode) ==
  [i \in 1..Len(texts_to_encode) |-> Embedding(texts_to_encode[i])]

\* for text, embedding in zip(texts_to_encode, new_embeddings):
\*     self.embedding_cache[text] = embedding
ZipInsert(cache, texts_to_encode, new_embeddings) ==
  [t \in DOMAIN cache \cup Range(texts_to_encode) |->
     IF t \in Range(texts_to_encode)
     THEN new_embeddings[CHOOSE i \in 1..Len(texts_to_encode) : texts_to_encode[i] = t]
     ELSE cache[t]]

\* [text for text in all_texts if text not in self.embedding_cache]
TextsToEncodeList(cache, all_texts) == SelectSeq(all_texts, LAMBDA t : t \notin DOMAIN cache)

\* the cache after lines 195-200
FilledCache(cache, texts_to_encode) ==
  IF texts_to_encode = << >> THEN cache
  ELSE ZipInsert(cache, texts_to_encode, encode(texts_to_encode))

\* {text: self.embedding_cache[text] for text in all_texts}
EmbeddingMapOf(cache, all_texts) == [t \in Range(all_texts) |-> cache[t]]

OrderedCall(c, r, o, all_texts, filled) ==
  /\ embedding_cache' = filled
  /\ cache_file' = IF filled = embedding_cache THEN cache_file
                   ELSE _save_cache(filled, cache_file, FALSE)
  /\ call' = Some([candidate_skills |-> c, job_required |-> r, job_optional |-> Some(o),
                   step_raised |-> FALSE, all_texts |-> all_texts,
                   hits |-> Range(all_texts) \cap DOMAIN embedding_cache])
  /\ ret' = FinallyBlock(self, c, r, o,
                         Some(MatchWithMap(self, EmbeddingMapOf(filled, all_texts), c, r, o)))
  /\ pc' = "done"
  /\ UNCHANGED <<self, peer_cache>>

\* a whole match_skills call in which list(set(...)) gave all_texts
MatchSkillsInOrder(c, r, o, all_texts) ==
  /\ pc = "idle"
  /\ all_texts \in ListsOfSet(AllTexts(c, r, o))
  /\ OrderedCall(c, r, o, all_texts,
                 FilledCache(embedding_cache, TextsToEncodeList(embedding_cache, all_texts)))

OrderedOptionalLists == {<< >>} \cup {<<t>> : t \in OptionalSkills}

NextOrdered ==
  \/ \E c \in CacheCandidateLists, r \in CacheRequiredLists, o \in OrderedOptionalLists :
       \E all_texts \in ListsOfSet(AllTexts(c, r, o)) : MatchSkillsInOrder(c, r, o, all_texts)
  \/ CallerContinues

SpecOrdered == InitCache /\ [][NextOrdered]_vars

\* What the inputs of the call and the vectors of their texts give.
FixedResults ==
  MatchWithMap(self, CallEmbeddingMap(TheCall.candidate_skills, TheCall.job_required, GivenOptional),
               TheCall.candidate_skills, TheCall.job_required, GivenOptional)

\* C21: the required and the optional results of a call are what its inputs
\* and the vectors of its texts give, whatever order list(set(...)) took and
\* whichever texts the cache held; so two calls with the same inputs return the
\* same lists.
C21_ResultsDependOnInputsOnly ==
  Returned =>
    /\ Results.required = FixedResults.required
    /\ Results.nice = FixedResults.nice

\* A call has returned for which the cache held one text and not another, and
\* the texts it encoded were not in the order of a sort by length.
C21_Witness ==
  /\ Returned
  /\ TheCall.hits # {}
  /\ Cardinality(Range(TheCall.all_texts) \ TheCall.hits) >= 2
  /\ \E i, j \in 1..Len(TheCall.all_texts) :
       /\ i < j
       /\ Len(TheCall.all_texts[i]) < Len(TheCall.all_texts[j])
       /\ {TheCall.all_texts[i], TheCall.all_texts[j]} \cap TheCall.hits = {}


\* ---------------------------------------------------------------------------
\* parse/parser.py: the metadata record of the parsing pipeline
\* ---------------------------------------------------------------------------

\* A JSON value is a string, Leaf(text), or a dict, Node(fields), fields a
\* function from the keys to values.
Leaf(text) == [leaf |-> text]

Node(fields) == [fields |-> fields]

IsLeaf(v) == "leaf" \in DOMAIN v

SENSITIVE_KEYS == {"api_key", "url", "model_path", "api_base"}

\* _sanitize_provider_config_for_metadata: the fields of the dict, one level
_sanitize_provider_config_for_metadata(provider_config) ==
  [key \in DOMAIN provider_config |->
     IF key \in SENSITIVE_KEYS THEN Leaf("[REDACTED]") ELSE provider_config[key]]

\* Config.get_provider_config, Config.get_pipeline_config: the dict of the
\* provider, {} when there is none
get_provider_config(config, provider_name) ==
  Get(Get(config, "providers", EmptyDict), provider_name, EmptyDict)

get_pipeline_config(config, provider_name) ==
  Get(Get(config, "pipelines", EmptyDict), provider_name, EmptyDict)

\* generate_metadata: the fields that come from the configuration and from the
\* arguments (the timestamp, the processing time and the counts of the parsed
\* sections do not)
generate_metadata(source_id, provider_used, config, output_file) ==
  Node([source_identifier |-> Node([type |-> Leaf("file_system"), id |-> Leaf(source_id)]),
        parsing_details |->
          Node([status |-> Leaf("success"),
                provider_used |-> Leaf(provider_used),
                provider_config |->
                  Node(_sanitize_provider_config_for_metadata(
                         get_provider_config(config, provider_used))),
                pipeline_config |-> Node(get_pipeline_config(config, provider_used)),
                output_file |-> Leaf(output_file)])])

\* The values of a dict of optional fields: the fields that are given.
Given(optional_fields) ==
  [key \in {k \in DOMAIN optional_fields : ~IsNone(optional_fields[k])} |->
     optional_fields[key][1]]

Optionally(v) == {None, Some(v)}

\* Provider configurations: a model, and maybe a key, a url, a model path, a
\* base url, and a nested dict of request options with a key of its own.
ProviderConfigs ==
  {Given([model |-> Some(Leaf("gpt")), api_key |-> k, url |-> u, model_path |-> p,
          api_base |-> b, options |-> o]) :
     k \in Optionally(Leaf("sk-1")), u \in Optionally(Leaf("http://h")),
     p \in Optionally(Leaf("/models/m")), b \in Optionally(Leaf("http://b")),
     o \in Optionally(Node([timeout |-> Leaf("60"), api_key |-> Leaf("sk-2")]))}

\* Pipeline configurations: the steps, and maybe the url of a service a step
\* calls.
PipelineConfigs ==
  {Given([steps |-> Some(Leaf("summary")), url |-> u]) : u \in Optionally(Leaf("http://s"))}

\* Config._merged_config
MergedConfigs ==
  {[version |-> Leaf("1.0.0"),
    pipelines |-> [openai |-> pl],
    providers |-> [openai |-> pr]] : pl \in PipelineConfigs, pr \in ProviderConfigs}

InitMetadata ==
  /\ self \in MergedConfigs
  /\ embedding_cache = EmptyCache
  /\ cache_file = None
  /\ pc = "idle"
  /\ call = None
  /\ ret = None
  /\ peer_cache = None

GenerateMetadata(provider_used) ==
  /\ pc = "idle"
  /\ call' = Some([provider_used |-> provider_used])
  /\ ret' = Return(generate_metadata("unknown_resume", provider_used, self, "out.json"))
  /\ pc' = "done"
  /\ UNCHANGED <<self, embedding_cache, cache_file, peer_cache>>

NextMetadata ==
  \/ \E provider_used \in {"openai", "cloud"} : GenerateMetadata(provider_used)
  \/ CallerContinues

SpecMetadata == InitMetadata /\ [][NextMetadata]_vars

\* The strings of a value.
RECURSIVE LeavesOf(_)
LeavesOf(v) ==
  IF IsLeaf(v) THEN {v.leaf}
  ELSE UNION {LeavesOf(v.fields[key]) : key \in DOMAIN v.fields}

\* The strings of the fields of a value that have a sensitive name.
RECURSIVE SecretsOf(_)
SecretsOf(v) ==
  IF IsLeaf(v) THEN {}
  ELSE UNION {IF key \in SENSITIVE_KEYS THEN LeavesOf(v.fields[key])
              ELSE SecretsOf(v.fields[key]) : key \in DOMAIN v.fields}

ConfigSecrets ==
  UNION {SecretsOf(Node(self.providers[n])) : n \in DOMAIN self.providers}
    \cup UNION {SecretsOf(Node(self.pipelines[n])) : n \in DOMAIN self.pipelines}

\* C22: no value of a configuration field named api_key, url, model_path or
\* api_base is in the metadata record, and no field of the record with one of
\* these names holds anything but the placeholder.
C22_NoSecretInMetadata ==
  pc = "done" =>
    /\ LeavesOf(ret.value[1]) \cap ConfigSecrets = {}
    /\ SecretsOf(ret.value[1]) \subseteq {"[REDACTED]"}


\* The pairs of a _find_best_match call in the order of its loops: pair k is
\* alternative (k - 1) \div n + 1 with candidate (k - 1) % n + 1, n the number
\* of candidates.
CallParts == SplitParts(TheCall.job_skill)

PartOf(k) == CallParts[((k - 1) \div Len(TheCall.candidate_skills)) + 1]

CandidateOf(k) == TheCall.candidate_skills[((k - 1) % Len(TheCall.candidate_skills)) + 1]

EmbeddedPairs ==
  {k \in 1..(Len(CallParts) * Len(TheCall.candidate_skills)) :
     {PartOf(k), CandidateOf(k)} \subseteq DOMAIN TheCall.embedding_map}

SemanticOf(k) ==
  cos_sim(TheCall.embedding_map[PartOf(k)], TheCall.embedding_map[CandidateOf(k)])

LexicalOf(k) == LexicalSimilarities[self.normalizer][PartOf(k)][CandidateOf(k)]

ScoreOf(k) == self.semantic_weight * SemanticOf(k) + self.lexical_weight * LexicalOf(k)

\* The first of the pairs that attain the greatest score, when that is above 0.
IsWinner(k) ==
  /\ ScoreOf(k) > 0
  /\ \A j \in EmbeddedPairs : ScoreOf(j) <= ScoreOf(k) /\ (j < k => ScoreOf(j) < ScoreOf(k))

\* C23: the match and the components _find_best_match reports are those of the
\* first pair, in the order of the loops, that attains the greatest score: a
\* later pair with the same score does not replace it.
C23_FirstBestPairWins ==
  pc = "done" =>
    \A k \in EmbeddedPairs :
      IsWinner(k) =>
        /\ BestResult.match = Some(CandidateOf(k))
        /\ BestResult.components.semantic = RoundDiv(SemanticOf(k), SimScale \div RoundScale)
        /\ BestResult.components.lexical = RoundDiv(LexicalOf(k), SimScale \div RoundScale)

\* Two pairs with different candidates attain the greatest score, and the
\* candidate of the first is reported.
C23_Witness ==
  /\ pc = "done"
  /\ \E k, j \in EmbeddedPairs :
       /\ IsWinner(k)
       /\ k < j
       /\ ScoreOf(j) = ScoreOf(k)
       /\ CandidateOf(j) # CandidateOf(k)
       /\ BestResult.match = Some(CandidateOf(k))


\* The text the synonym step sees, and the items of the synonym map it is
\* equal to, case ignored.
Expanded ==
  IF "apply_acronyms" \in self.config
  THEN ApplyAcronyms(call[1].text, self.acronym_map, 1)
  ELSE call[1].text

SynonymHits ==
  {k \in 1..Len(self.synonym_map) :
     \/ Lower(Expanded) = Lower(self.synonym_map[k].canonical)
     \/ \E j \in 1..Len(self.synonym_map[k].synonyms) :
          Lower(Expanded) = Lower(self.synonym_map[k].synonyms[j])}

ShortCircuits == "apply_synonyms" \in self.config /\ SynonymHits # {}

Lowered == IF "lowercase" \in self.config THEN Lower(Expanded) ELSE Expanded

Stripped == IF "strip_whitespace" \in self.config THEN Strip(Lowered) ELSE Lowered

Unpunctuated ==
  IF "remove_punctuation" \in self.config THEN RemovePunctuation(Stripped) ELSE Stripped

\* C24: for a text that is not empty, with apply_synonyms set and the text
\* after the acronym step equal, case ignored, to a canonical term or to one of
\* its synonyms, normalize returns that canonical term lowercased and nothing
\* else is done to it; otherwise it returns the text lowercased, then stripped,
\* then without punctuation, each step only if its flag is set.
C24_SynonymShortCircuit ==
  (pc = "done" /\ call[1].text # << >>) =>
    IF ShortCircuits
    THEN \E k \in SynonymHits : ret.value[1] = Lower(self.synonym_map[k].canonical)
    ELSE ret.value[1] = Unpunctuated

\* With every flag set, a synonym was given and the canonical term came back
\* lowercased with its punctuation.
C24_Witness ==
  /\ pc = "done"
  /\ self.config = AllNormalization
  /\ ShortCircuits
  /\ call[1].text # ret.value[1]
  /\ \E i \in 1..Len(ret.value[1]) : ret.value[1][i] \in Punctuation


\* C25: every optional result carries ok = (sim >= nice_threshold), a sim equal
\* to the threshold being relevant, and summary.nice_relevant is the number of
\* the optional results whose ok is true.
C25_OkIsSimAtLeastNice ==
  Returned =>
    /\ \A i \in 1..Len(Results.nice) :
         Results.nice[i].ok = (Results.nice[i].sim >= self.nice_threshold)
    /\ Results.summary.nice_relevant
         = Cardinality({i \in 1..Len(Results.nice) : Results.nice[i].ok})

\* An optional result whose sim is the threshold is relevant, next to none that
\* is not.
C25_Witness ==
  /\ Returned
  /\ \E i \in 1..Len(Results.nice) :
       Results.nice[i].sim = self.nice_threshold /\ Results.nice[i].ok
  /\ Results.summary.nice_relevant = Len(Results.nice)
  /\ self.nice_threshold > 0

\* a is b with some of its entries left out
RECURSIVE IsSubsequence(_, _)
IsSubsequence(a, b) ==
  IF a = << >> THEN TRUE
  ELSE IF b = << >> THEN FALSE
  ELSE IF Head(a) = Head(b) THEN IsSubsequence(Tail(a), Tail(b))
  ELSE IsSubsequence(a, Tail(b))

C28_InvertedThresholds ==
  (Done /\ ~TheCall.step_raised /\ self.weak_threshold > self.strong_threshold) =>
    /\ Returned
    /\ Metadata.matching_details.status = "success"
    /\ Results.required.weak = << >>
    /\ \A r \in RequiredResultSet :
         (self.strong_threshold <= r.sim /\ r.sim < self.weak_threshold) =>
           InList(r, Results.required.strong) /\ InList(r, Results.required.missing)

\* A call has returned whose strong and missing counts add up to more than the
\* number of its required skills.
C28_Witness ==
  /\ Returned
  /\ self.weak_threshold > self.strong_threshold
  /\ Results.summary.req_strong + Results.summary.req_missing > Len(TheCall.job_required)
  /\ Results.summary.req_weak = 0


\* ---------------------------------------------------------------------------
\* A cache file that holds, for a text, a vector the model would not give it
\* now (a file saved before the model behind the name changed)
\* ---------------------------------------------------------------------------
StaleVector == <<25, 0>>

StaleFiles ==
  CacheInitialFiles \cup {Some([valid |-> TRUE, data |-> [t \in {T_B} |-> StaleVector]])}

InitStale ==
  /\ self = SkillMatcher(DefaultConfig)
  /\ cache_file \in StaleFiles
  /\ embedding_cache = _load_cache(cache_file)
  /\ pc = "idle"
  /\ call = None
  /\ ret = None
  /\ peer_cache = None

SpecStale == InitStale /\ [][NextCache]_vars

\* C26: no step removes an entry of the embedding cache of a matcher or
\* changes the vector of a key: the keys only grow and each keeps the vector
\* first stored for it.
C26_CacheEntriesAreKept ==
  [][ /\ \A t \in DOMAIN embedding_cache :
           t \in DOMAIN embedding_cache' /\ embedding_cache'[t] = embedding_cache[t]
      /\ (~IsNone(peer_cache) /\ ~IsNone(peer_cache')) =>
           \A t \in DOMAIN peer_cache[1] :
             t \in DOMAIN peer_cache'[1] /\ peer_cache'[1][t] = peer_cache[1][t] ]_vars

\* A call that used a text of the cache has gone by, the cache has grown by
\* another text, and the text still has the vector the file gave it, which is
\* not the one encode gives.
C26_Witness ==
  /\ pc = "matching"
  /\ T_B \in TextsOfCall(call[1])
  /\ call[1].encode_calls # << >>
  /\ T_B \in DOMAIN embedding_cache
  /\ embedding_cache[T_B] = StaleVector
  /\ embedding_cache[T_B] # Embedding(T_B)


\* ---------------------------------------------------------------------------
\* parse/config.py and llm_providers/manager.py: the providers in configured
\* order, and LLMManager trying them one after the other
\* ---------------------------------------------------------------------------
MaxCalls == 2

\* Config.active_provider, Config.fallback_providers, Config.use_fallback
active_provider(config) == Get(Get(config, "active", EmptyDict), "primary", "openai")

fallback_providers(config) == Get(Get(config, "active", EmptyDict), "fallback", << >>)

use_fallback(config) == Get(Get(config, "active", EmptyDict), "use_fallback", TRUE)

\* dict[key] = value
SetItem(d, key, value) ==
  [k \in DOMAIN d \cup {key} |-> IF k = key THEN value ELSE d[k]]

\* the configurations of the named providers that have one, each under its name
NamedConfigs(config, names) ==
  LET named == [i \in 1..Len(names) |->
                  LET provider_config == get_provider_config(config, names[i])
                  IN  IF provider_config # EmptyDict
                        THEN <<SetItem(provider_config, "name", names[i])>>
                        ELSE << >>]
      flatten[k \in 0..Len(names)] == IF k = 0 THEN << >> ELSE flatten[k - 1] \o named[k]
  IN  flatten[Len(names)]

get_all_providers_config(config) ==
  NamedConfigs(config, <<active_provider(config)>>)
    \o (IF use_fallback(config) THEN NamedConfigs(config, fallback_providers(config))
                                ELSE << >>)

\* LLMManager._create_provider: a provider object, or None for a type that is
\* unknown or whose library is not installed
ProviderTypes == {"openai", "cloud", "local"}

_create_provider(provider_type, installed) ==
  IF provider_type \in ProviderTypes /\ provider_type \in installed
    THEN Some(provider_type)
    ELSE None

\* LLMManager.__init__
LLMManager(providers_config, installed) ==
  LET created == SelectSeq(providers_config,
                   LAMBDA config : ~IsNone(_create_provider(Get(config, "type", ""), installed)))
  IN  [providers |-> [i \in 1..Len(created) |-> Get(created[i], "type", "")],
       configs |-> created,
       used_provider_index |-> -1]

\* what provider.call does: it raises, returns an empty text, or returns a text
ProviderOutcomes(provider) == {Raise("ConnectionError"), Return(""), Return(provider)}

CallOutcomes(manager) ==
  {outcomes \in [1..Len(manager.providers) -> UNION {ProviderOutcomes(t) : t \in ProviderTypes}] :
     \A i \in 1..Len(manager.providers) : outcomes[i] \in ProviderOutcomes(manager.providers[i])}

\* the response is truthy: the call returned and the text is not empty
HasResponse(outcome) == IsNone(outcome.raised) /\ outcome.value[1] # ""

\* get_response without its return at the first response: every provider is
\* called and the last response is the one returned
RECURSIVE get_response_KeepsGoing(_, _, _)
get_response_KeepsGoing(manager, outcomes, i) ==
  IF i >= Len(manager.providers)
    THEN [used_provider_index |-> manager.used_provider_index,
          value |-> <<"", -1>>, called |-> << >>]
    ELSE LET rest == get_response_KeepsGoing(manager, outcomes, i + 1)
         IN  IF HasResponse(outcomes[i + 1]) /\ rest.value[2] = -1
               THEN [used_provider_index |-> i,
                     value |-> <<outcomes[i + 1].value[1], i>>, called |-> <<i>> \o rest.called]
               ELSE [rest EXCEPT !.called = <<i>> \o @]

\* get_response forgetting the provider of an earlier call when all fail
RECURSIVE get_response_Forgets(_, _, _)
get_response_Forgets(manager, outcomes, i) ==
  IF i >= Len(manager.providers)
    THEN [used_provider_index |-> -1, value |-> <<"", -1>>, called |-> << >>]
    ELSE IF HasResponse(outcomes[i + 1])
      THEN [used_provider_index |-> i,
            value |-> <<outcomes[i + 1].value[1], i>>, called |-> <<i>>]
      ELSE LET rest == get_response_Forgets(manager, outcomes, i + 1)
           IN  [rest EXCEPT !.called = <<i>> \o @]

\* LLMManager.get_response from provider i on (i counts from 0): the index the
\* manager keeps, the pair returned, and the providers called, in order
RECURSIVE get_response(_, _, _)
get_response(manager, outcomes, i) ==
  IF i >= Len(manager.providers)
    THEN [used_provider_index |-> manager.used_provider_index,
          value |-> <<"", -1>>, called |-> << >>]
    ELSE IF HasResponse(outcomes[i + 1])
      THEN [used_provider_index |-> i,
            value |-> <<outcomes[i + 1].value[1], i>>, called |-> <<i>>]
      ELSE LET rest == get_response(manager, outcomes, i + 1)
           IN  [rest EXCEPT !.called = <<i>> \o @]

\* LLMManager.get_used_provider
get_used_provider(manager) ==
  IF manager.used_provider_index >= 0 /\ manager.used_provider_index < Len(manager.configs)
    THEN Get(manager.configs[manager.used_provider_index + 1], "name", "unknown")
    ELSE ""

\* process_resume: the provider whose pipeline the later steps follow
actual_provider_name(manager, config) ==
  IF get_used_provider(manager) # "" THEN get_used_provider(manager)
                                     ELSE active_provider(config)

\* the configurations the manager is built from
ActiveSections ==
  {Given([primary |-> p, fallback |-> f, use_fallback |-> u]) :
     p \in Optionally("cloud"),
     f \in {None, Some(<<"cloud">>), Some(<<"local", "cloud">>), Some(<<"cloud", "openai">>)},
     u \in Optionally(FALSE)}

ProviderSections ==
  {Given([openai |-> o, cloud |-> Some([type |-> "cloud"]), local |-> l]) :
     o \in Optionally([type |-> "openai"]),
     l \in {None, Some([type |-> "local"]), Some([type |-> "llama"])}}

LLMConfigs ==
  {[active |-> a, providers |-> p] : a \in ActiveSections, p \in ProviderSections}

InstalledSets == {ProviderTypes, ProviderTypes \ {"local"}}

InitManager ==
  /\ \E config \in LLMConfigs, installed \in InstalledSets :
       self = [config |-> config,
               llm_manager |-> LLMManager(get_all_providers_config(config), installed)]
  /\ embedding_cache = EmptyCache
  /\ cache_file = None
  /\ pc = "idle"
  /\ call = None
  /\ ret = << >>
  /\ peer_cache = None

\* one call of llm_manager.get_response; ret is the list of the pairs returned
GetResponse(outcomes) ==
  /\ Len(ret) < MaxCalls
  /\ LET r == get_response(self.llm_manager, outcomes, 0)
     IN  /\ self' = [self EXCEPT !.llm_manager.used_provider_index = r.used_provider_index]
         /\ call' = Some([outcomes |-> outcomes, called |-> r.called])
         /\ ret' = Append(ret, r.value)
  /\ UNCHANGED <<embedding_cache, cache_file, pc, peer_cache>>

NextManager == \E outcomes \in CallOutcomes(self.llm_manager) : GetResponse(outcomes)

SpecManager == InitManager /\ [][NextManager]_vars

\* the providers the configuration names, the primary one first
ConfiguredOrder ==
  <<active_provider(self.config)>>
    \o (IF use_fallback(self.config) THEN fallback_providers(self.config) ELSE << >>)

ManagerNames ==
  [i \in 1..Len(self.llm_manager.configs) |-> self.llm_manager.configs[i].name]

\* the positions (from 1) of the providers that gave a response in the last call
Responding ==
  {i \in 1..Len(call[1].outcomes) : HasResponse(call[1].outcomes[i])}

FirstResponding == CHOOSE i \in Responding : \A j \in Responding : i <= j

\* C29: the manager holds the providers in configured order; a call of
\* get_response calls them in that order up to the first one that returns a
\* text that is not empty, returns that text with that provider's index, and
\* calls none after it; it returns ("", -1) exactly when every provider raised
\* or returned an empty text, and then it has called them all.
C29_FirstRespondingProvider ==
  /\ IsSubsequence(ManagerNames, ConfiguredOrder)
  /\ ~IsNone(call) =>
       LET called == call[1].called
           returned == ret[Len(ret)]
       IN  /\ \A j \in 1..Len(called) : called[j] = j - 1
           /\ IF Responding = {}
                THEN returned = <<"", -1>> /\ Len(called) = Len(self.llm_manager.providers)
                ELSE /\ returned = <<call[1].outcomes[FirstResponding].value[1],
                                     FirstResponding - 1>>
                     /\ returned # <<"", -1>>
                     /\ Len(called) = FirstResponding

\* the first provider raised, the second responded and so would the third
\* have: the second one's text and index are returned
C29_Witness ==
  /\ ~IsNone(call)
  /\ Len(call[1].outcomes) = 3
  /\ ~IsNone(call[1].outcomes[1].raised)
  /\ HasResponse(call[1].outcomes[2])
  /\ HasResponse(call[1].outcomes[3])
  /\ ret[Len(ret)][2] = 1

\* the calls that succeeded, in order
Succeeded == SelectSeq(ret, LAMBDA returned : returned[2] >= 0)

\* C30: used_provider_index is -1 while no call has succeeded and afterwards
\* the index the most recent successful call returned, whatever calls failed
\* since, and get_used_provider names the provider at that index.
C30_IndexOfLastSuccess ==
  IF Succeeded = << >>
    THEN /\ self.llm_manager.used_provider_index = -1
         /\ get_used_provider(self.llm_manager) = ""
         /\ actual_provider_name(self.llm_manager, self.config) = active_provider(self.config)
    ELSE LET index == Succeeded[Len(Succeeded)][2]
         IN  /\ self.llm_manager.used_provider_index = index
             /\ get_used_provider(self.llm_manager) = ManagerNames[index + 1]

\* every provider failed in the last call, and the manager still names the
\* provider that answered the call before
C30_Witness ==
  /\ Len(ret) >= 2
  /\ ret[Len(ret)] = <<"", -1>>
  /\ ret[Len(ret) - 1][2] = 1
  /\ self.llm_manager.used_provider_index = 1
  /\ get_used_provider(self.llm_manager) = ManagerNames[2]
  /\ get_used_provider(self.llm_manager) # active_provider(self.config)

====
